---- MODULE Spec2Model ----
(***************************************************************************)
(* The expression evaluator of C-Calculator: the lexer, the recursive-     *)
(* descent parser/evaluator and evaluate(), as they are written in         *)
(* calculator_tui.c (TUI), the command-line calculator (CLI) and           *)
(* calculator_mac.m (macOS and X11 front ends); and the key handling of    *)
(* the terminal UI, the loop of main in calculator_tui.c.                  *)
(*                                                                         *)
(* A C string is a sequence of one-character strings; a token text or an   *)
(* error message is a TLA+ string built by concatenation.                  *)
(*                                                                         *)
(* A double is one of                                                      *)
(*   [k |-> "q", n, d, ex]  the rational n/d (d > 0, lowest terms); ex     *)
(*                          says that the double IS n/d, otherwise n/d is  *)
(*                          the real number the double was rounded from;   *)
(*   [k |-> "t", op, a, s, b]  the result of operation op on arguments a   *)
(*                          that the model does not compute, of sign class *)
(*                          s; when s is "pos" or "neg" its magnitude lies *)
(*                          in [2^-b, 2^b].                                *)
(* Sign classes are "neg", "zero", "pos", "nan" and "unk" (the model       *)
(* cannot tell).  A comparison of the code on a value of class "unk" is    *)
(* settled by the oracle of the call, which ranges over all four outcomes. *)
(***************************************************************************)
EXTENDS Integers, Sequences, FiniteSets, TLC

VARIABLES
    family,       \* the inputs the caller draws from (fixed in a behaviour)
    pc,           \* "idle", "ready" (a string was handed over), "done"
    variant,      \* the front end whose evaluate is called
    expression,   \* the argument of evaluate
    result,       \* the double evaluate returned
    error_msg,    \* the out-parameter error_msg (TUI, macOS)
    error,        \* the out-parameter *error (CLI, X11); -1 where absent
    stdout,       \* the lines evaluate printed (CLI)
    result_text,  \* what evaluate stored in calc.result_text (X11)
    parser,       \* the Parser and Lexer as evaluate left them
    earlier,      \* a call made before, as its caller noted it
    current_expr, \* the edit line of the terminal UI
    cursor_pos,   \* the cursor in the edit line
    history,      \* the History of the terminal UI
    main_pc,      \* the read at which main waits: "read", "esc", "bracket";
                  \* "exit" once its loop has ended, "abort" once the
                  \* process was ended in evaluate
    submitted,    \* the expressions handed to add_to_history, oldest first
    ups,          \* the Up keys pressed since the last expression was
                  \* submitted, while only Up and then Down were pressed
                  \* since; -1 otherwise
    downs         \* the Down keys pressed after them

calc_vars == <<family, pc, variant, expression, result, error_msg, error, stdout,
               result_text, parser, earlier>>

tui_vars == <<current_expr, cursor_pos, history, main_pc, submitted, ups, downs>>

vars == <<family, pc, variant, expression, result, error_msg, error, stdout,
          result_text, parser, earlier, current_expr, cursor_pos, history,
          main_pc, submitted, ups, downs>>

(***************************************************************************)
(* Bounds of the model and constants of the program.                       *)
(***************************************************************************)
MaxMag == 10000          \* numerators and denominators computed exactly

MaxOps == 2              \* binary operators in a generated arithmetic input

MaxLen == 4              \* lexemes in an input enumerated over a vocabulary

MaxNest == 2             \* opening parentheses in an input

MaxSubmit == 11          \* expressions submitted in a session

MaxLine == 2             \* characters typed into the edit line

MaxMarked == 1           \* submitted expressions other than 2

MaxOver == 2             \* characters of a run beyond MAX_TOKEN_LEN

MaxEdit == 1             \* expressions submitted in a session of editing

MAX_TOKEN_LEN == 256

MAX_EXPR_LEN == 1024

MAX_HISTORY == 10

SignClasses == {"neg", "zero", "pos", "nan"}

(***************************************************************************)
(* Characters.                                                             *)
(***************************************************************************)
NUL == "NUL"

DigitChars == <<"0", "1", "2", "3", "4", "5", "6", "7", "8", "9">>

isdigit(c) == \E i \in 1..10 : DigitChars[i] = c

DigitVal(c) == (CHOOSE i \in 1..10 : DigitChars[i] = c) - 1

isalpha(c) ==
    c \in {"a", "b", "c", "d", "e", "f", "g", "h", "i", "j", "k", "l", "m",
           "n", "o", "p", "q", "r", "s", "t", "u", "v", "w", "x", "y", "z",
           "A", "B", "C", "D", "E", "F", "G", "H", "I", "J", "K", "L", "M",
           "N", "O", "P", "Q", "R", "S", "T", "U", "V", "W", "X", "Y", "Z"}

isspace(c) == c \in {" ", "\t", "\n", "\r", "\f"}

\* input[i] of the C string: the terminating NUL sits at index Len(input)
CharAt(input, i) == IF i < Len(input) THEN input[i + 1] ELSE NUL

RECURSIVE Text(_, _, _)
\* the len characters of input from index start, as one string (strncpy),
\* put together from its two halves
Text(input, start, len) ==
    IF len = 0 THEN ""
    ELSE IF len = 1 THEN input[start + 1]
    ELSE Text(input, start, len \div 2)
         \o Text(input, start + len \div 2, len - len \div 2)

(***************************************************************************)
(* Doubles.                                                                *)
(***************************************************************************)
Abs(x) == IF x < 0 THEN -x ELSE x

Max(x, y) == IF x > y THEN x ELSE y

RECURSIVE Gcd(_, _)
Gcd(a, b) == IF b = 0 THEN a ELSE Gcd(b, a % b)

IsPow2(d) == \E i \in 0..30 : d = 2^i

InRange(n, d) == Abs(n) <= MaxMag /\ d <= MaxMag

\* the rational n/d (d # 0) in lowest terms; it is the double itself only
\* when the operands were and the denominator is a power of two
Mk(n, d, ex) ==
    LET g  == Gcd(Abs(n), Abs(d))
        nn == IF d < 0 THEN -(n \div g) ELSE n \div g
        dd == Abs(d) \div g
    IN  [k |-> "q", n |-> nn, d |-> dd, ex |-> ex /\ IsPow2(dd)]

Zero == [k |-> "q", n |-> 0, d |-> 1, ex |-> TRUE]

One == [k |-> "q", n |-> 1, d |-> 1, ex |-> TRUE]

Uninit == [k |-> "uninit"]

Safe(b) == b <= 1000

\* a value the model does not compute; its sign is known only while its
\* magnitude bound excludes overflow and underflow
T(op, a, s, b) ==
    [k |-> "t", op |-> op, a |-> a, b |-> b,
     s |-> IF s \in {"pos", "neg"} /\ ~Safe(b) THEN "unk" ELSE s]

Sign(v) ==
    IF v.k = "q"
    THEN IF v.n > 0 THEN "pos"
         ELSE IF v.n < 0 THEN "neg"
         ELSE IF v.ex THEN "zero" ELSE "unk"
    ELSE v.s

\* magnitude bound of a value of sign class "pos" or "neg"
Bnd(v) == IF v.k = "q" THEN 32 ELSE v.b

IsExactZero(v) == v.k = "q" /\ v.n = 0 /\ v.ex

Flip(s) == IF s = "pos" THEN "neg" ELSE IF s = "neg" THEN "pos" ELSE s

\* sign class of a product or quotient whose magnitude bound is b
SignMul(sa, sb, b) ==
    IF sa = "nan" \/ sb = "nan" THEN "nan"
    ELSE IF sa \in {"pos", "neg"} /\ sb \in {"pos", "neg"} /\ Safe(b)
         THEN (IF sa = sb THEN "pos" ELSE "neg")
    ELSE "unk"

\* sign class of a sum
SignAdd(sa, sb, b) ==
    IF sa = "nan" \/ sb = "nan" THEN "nan"
    ELSE IF sa = "zero" /\ sb # "unk" THEN sb
    ELSE IF sb = "zero" /\ sa # "unk" THEN sa
    ELSE IF sa = sb /\ sa \in {"pos", "neg"} /\ Safe(b) THEN sa
    ELSE "unk"

V_neg(v) ==
    IF v.k = "q" THEN [v EXCEPT !.n = -v.n]
    ELSE T("neg", <<v>>, Flip(v.s), v.b)

V_add(x, y) ==
    IF x.k = "q" /\ y.k = "q"
    THEN LET r == Mk(x.n * y.d + y.n * x.d, x.d * y.d, x.ex /\ y.ex)
         IN  IF InRange(r.n, r.d) THEN r
             ELSE T("add", <<x, y>>, Sign(r), 32)
    ELSE LET b == Max(Bnd(x), Bnd(y)) + 1
         IN  T("add", <<x, y>>, SignAdd(Sign(x), Sign(y), b), b)

V_sub(x, y) == V_add(x, V_neg(y))

V_mul(x, y) ==
    IF x.k = "q" /\ y.k = "q"
    THEN LET r == Mk(x.n * y.n, x.d * y.d,
                     (x.ex /\ y.ex) \/ IsExactZero(x) \/ IsExactZero(y))
         IN  IF InRange(r.n, r.d) THEN r
             ELSE T("mul", <<x, y>>, Sign(r), 64)
    ELSE LET b == Bnd(x) + Bnd(y) + 1
         IN  IF (IsExactZero(x) /\ Sign(y) \in {"pos", "neg", "zero"} /\ Safe(Bnd(y)))
                \/ (IsExactZero(y) /\ Sign(x) \in {"pos", "neg", "zero"} /\ Safe(Bnd(x)))
             THEN Zero
             ELSE T("mul", <<x, y>>, SignMul(Sign(x), Sign(y), b), b)

\* x / y; the code divides only after the test y == 0 has failed
V_div(x, y) ==
    IF x.k = "q" /\ y.k = "q" /\ y.n # 0
    THEN LET r == Mk(x.n * y.d, x.d * y.n, (x.ex /\ y.ex) \/ IsExactZero(x))
         IN  IF InRange(r.n, r.d) THEN r
             ELSE T("div", <<x, y>>, Sign(r), 64)
    ELSE LET b == Bnd(x) + Bnd(y) + 1
         IN  IF IsExactZero(x) /\ Sign(y) \in {"pos", "neg"} /\ Safe(Bnd(y))
             THEN Zero
             ELSE T("div", <<x, y>>, SignMul(Sign(x), Sign(y), b), b)

\* fmod(x, y): x - y * trunc(x / y), exact on doubles; sign of the dividend
V_fmod(x, y) ==
    IF x.k = "q" /\ y.k = "q" /\ x.ex /\ y.ex /\ y.n # 0
    THEN LET A == x.n * y.d
             B == Abs(y.n * x.d)
             r == Abs(A) % B
         IN  Mk(IF A < 0 THEN -r ELSE r, x.d * y.d, TRUE)
    ELSE IF IsExactZero(x) /\ Sign(y) \in {"pos", "neg"} THEN Zero
    ELSE T("fmod", <<x, y>>,
           IF Sign(x) = "nan" \/ Sign(y) = "nan" THEN "nan" ELSE "unk", 0)

V_fabs(v) ==
    IF v.k = "q" THEN [v EXCEPT !.n = Abs(v.n)]
    ELSE T("fabs", <<v>>, IF v.s = "neg" THEN "pos" ELSE v.s, v.b)

IsSquare(n) == \E r \in 0..n : r * r = n

Root(n) == CHOOSE r \in 0..n : r * r = n

\* sqrt(v); the code calls it only after the test v < 0 has failed
V_sqrt(v) ==
    IF v.k = "q" /\ v.ex /\ v.n >= 0 /\ IsSquare(v.n) /\ IsSquare(v.d)
    THEN Mk(Root(v.n), Root(v.d), TRUE)
    ELSE T("sqrt", <<v>>, IF Sign(v) = "neg" THEN "nan" ELSE Sign(v), Bnd(v))

\* log(v); the code calls it only after the test v <= 0 has failed
V_log(v) ==
    IF v.k = "q" /\ v.ex /\ v.n = v.d THEN Zero
    ELSE IF v.k = "q" /\ v.n > v.d THEN T("log", <<v>>, "pos", 32)
    ELSE IF v.k = "q" /\ v.n > 0 /\ v.n < v.d THEN T("log", <<v>>, "neg", 32)
    ELSE IF v.k = "t" /\ v.op \in {"pi", "e"} THEN T("log", <<v>>, "pos", 2)
    ELSE T("log", <<v>>, IF Sign(v) = "nan" THEN "nan" ELSE "unk", 0)

V_exp(v) ==
    IF IsExactZero(v) THEN One
    ELSE IF v.k = "q" /\ Abs(v.n) <= 400 * v.d
         THEN T("exp", <<v>>, "pos", 2 * ((Abs(v.n) + v.d - 1) \div v.d) + 1)
    ELSE IF v.k = "t" /\ v.s \in {"pos", "neg"} /\ v.b <= 8
         THEN T("exp", <<v>>, "pos", 2 ^ (v.b + 1))
    ELSE T("exp", <<v>>, IF Sign(v) = "nan" THEN "nan" ELSE "unk", 0)

V_sin(v) ==
    IF IsExactZero(v) THEN Zero
    ELSE T("sin", <<v>>, IF Sign(v) = "nan" THEN "nan" ELSE "unk", 0)

V_cos(v) ==
    IF IsExactZero(v) THEN One
    ELSE T("cos", <<v>>, IF Sign(v) = "nan" THEN "nan" ELSE "unk", 0)

V_tan(v) ==
    IF IsExactZero(v) THEN Zero
    ELSE T("tan", <<v>>, IF Sign(v) = "nan" THEN "nan" ELSE "unk", 0)

RECURSIVE IPow(_, _)
\* b^k for k >= 0 and |b| >= 2, or MaxMag + 1 once it leaves the exact range
IPow(b, k) ==
    IF k = 0 THEN 1
    ELSE LET h == IPow(b, k - 1)
         IN  IF Abs(h) > MaxMag \/ Abs(h * b) > MaxMag THEN MaxMag + 1 ELSE h * b

\* pow(x, y)
V_pow(x, y) ==
    IF IsExactZero(y) THEN One
    ELSE IF x.k = "q" /\ x.ex /\ x.n = x.d THEN One
    ELSE IF x.k = "q" /\ y.k = "q" /\ x.ex /\ y.ex /\ y.d = 1
    THEN \* an integer exponent
         IF x.n = 0
         THEN (IF y.n > 0 THEN Zero ELSE T("pow", <<x, y>>, "unk", 0))
         ELSE IF Abs(y.n) > 16
              THEN IF x.n = -x.d /\ x.d = 1
                   THEN Mk(IF y.n % 2 = 0 THEN 1 ELSE -1, 1, TRUE)
                   ELSE T("pow", <<x, y>>,
                          IF x.n > 0 \/ y.n % 2 = 0 THEN "pos" ELSE "neg",
                          32 * Abs(y.n))
              ELSE LET pn == IPow(x.n, Abs(y.n))
                       pd == IPow(x.d, Abs(y.n))
                   IN  IF Abs(pn) > MaxMag \/ pd > MaxMag
                       THEN T("pow", <<x, y>>,
                              IF x.n > 0 \/ y.n % 2 = 0 THEN "pos" ELSE "neg",
                              32 * Abs(y.n))
                       ELSE IF y.n > 0 THEN Mk(pn, pd, TRUE) ELSE Mk(pd, pn, TRUE)
    ELSE IF Sign(x) = "nan" \/ Sign(y) = "nan" THEN T("pow", <<x, y>>, "nan", 0)
    ELSE IF x.k = "q" /\ x.ex /\ x.n < 0 /\ y.k = "q" /\ y.ex
         THEN T("pow", <<x, y>>, "nan", 0)       \* a fractional exponent
    ELSE IF IsExactZero(x) /\ Sign(y) = "pos" THEN Zero
    ELSE IF Sign(x) = "pos" /\ y.k = "q" /\ Abs(y.n) <= 16 * y.d
         THEN T("pow", <<x, y>>, "pos", 16 * Bnd(x))
    ELSE T("pow", <<x, y>>, "unk", 0)

M_PI == T("pi", <<>>, "pos", 2)

M_E == T("e", <<>>, "pos", 2)

RECURSIVE Digits(_, _, _, _)
\* the run of digits of chars from index i on: <<value, number of digits>>,
\* the value left as it is once it exceeds MaxMag
Digits(chars, i, acc, cnt) ==
    IF i < Len(chars) /\ isdigit(chars[i + 1])
    THEN Digits(chars, i + 1,
                IF acc > MaxMag THEN acc ELSE 10 * acc + DigitVal(chars[i + 1]),
                cnt + 1)
    ELSE <<acc, cnt>>

\* atof of the characters lexer_read_number copied from the input: digits
\* with at most one '.'
\* the double for the digits ip before and fp after the '.', each
\* <<value, number of digits>>, and den = 10^(number of digits after it)
Quotient(chars, ip, fp, den) ==
    IF \/ ip[1] > MaxMag \/ fp[1] > MaxMag \/ den > MaxMag
       \/ ip[1] * den + fp[1] > MaxMag
    THEN T("lit", <<[k |-> "lit", chars |-> chars]>>, "pos", 4 * Len(chars))
    ELSE Mk(ip[1] * den + fp[1], den, TRUE)

Fraction(chars, ip, fp) ==
    Quotient(chars, ip, fp, IF fp[2] > 8 THEN MaxMag + 1 ELSE IPow(10, fp[2]))

Integral(chars, ip) ==
    Fraction(chars, ip, IF ip[2] < Len(chars) /\ chars[ip[2] + 1] = "."
                        THEN Digits(chars, ip[2] + 1, 0, 0) ELSE <<0, 0>>)

atof(chars) == Integral(chars, Digits(chars, 0, 0, 0))

(***************************************************************************)
(* Lexer.  A lexer is [input, position, current] and, for the model, the   *)
(* front end it belongs to (variant), the outcome ub of the sprintf whose  *)
(* source and destination overlap, and whether that sprintf ran (ubhit).   *)
(***************************************************************************)
Variants == {"tui", "cli", "mac", "x11"}

SprintfOutcomes == {"intended", "clobbered"}

Token(type, value, text) == [type |-> type, value |-> value, text |-> text]

lexer_init(input, v, ub) ==
    [input |-> input, position |-> 0, current |-> Token("EOF", Uninit, ""),
     variant |-> v, ub |-> ub, ubhit |-> FALSE]

RECURSIVE SkipSpace(_, _)
SkipSpace(input, pos) ==
    IF CharAt(input, pos) # NUL /\ isspace(CharAt(input, pos))
    THEN SkipSpace(input, pos + 1)
    ELSE pos

\* lexer_skip_whitespace as an if: at most one character is skipped
lexer_skip_whitespace_once(lexer) ==
    [lexer EXCEPT !.position =
        IF CharAt(lexer.input, @) # NUL /\ isspace(CharAt(lexer.input, @))
        THEN @ + 1 ELSE @]

lexer_skip_whitespace(lexer) ==
    [lexer EXCEPT !.position = SkipSpace(lexer.input, lexer.position)]

RECURSIVE ScanNumber_dots(_, _, _)
\* the loop of lexer_read_number without has_dot: every '.' is taken
ScanNumber_dots(input, pos, has_dot) ==
    LET c == CharAt(input, pos)
    IN  IF c = NUL THEN pos
        ELSE IF isdigit(c) \/ c = "." THEN ScanNumber_dots(input, pos + 1, has_dot)
        ELSE pos

RECURSIVE ScanNumber(_, _, _)
\* the loop of lexer_read_number: the position after the digits and the
\* first '.'
ScanNumber(input, pos, has_dot) ==
    LET c == CharAt(input, pos)
    IN  IF c = NUL THEN pos
        ELSE IF isdigit(c) THEN ScanNumber(input, pos + 1, has_dot)
        ELSE IF c = "." /\ ~has_dot THEN ScanNumber(input, pos + 1, TRUE)
        ELSE pos

\* the length lexer_read_number and lexer_read_identifier copy
Copied(start, end) ==
    IF end - start >= MAX_TOKEN_LEN THEN MAX_TOKEN_LEN - 1 ELSE end - start

\* <<token, lexer>>: the token read and the lexer after reading it
\* the token for the len characters copied, and the lexer at end
NumberToken(lexer, end, len) ==
    <<Token("NUMBER",
            atof(SubSeq(lexer.input, lexer.position + 1, lexer.position + len)),
            Text(lexer.input, lexer.position, len)),
      [lexer EXCEPT !.position = end]>>

NumberTo(lexer, end) == NumberToken(lexer, end, Copied(lexer.position, end))

lexer_read_number(lexer) ==
    NumberTo(lexer, ScanNumber(lexer.input, lexer.position, FALSE))

\* the loop of lexer_read_identifier: the first position from pos on whose
\* character is the terminator or is not a letter
ScanAlpha(input, pos) ==
    CHOOSE end \in pos..Len(input) :
        /\ CharAt(input, end) = NUL \/ ~isalpha(CharAt(input, end))
        /\ \A i \in pos..(end - 1) : isalpha(CharAt(input, i))

UnknownPrefix(v) == IF v = "cli" THEN "Unknown identifier: " ELSE "Unknown: "

\* sprintf(token.text, "Unknown: %s", token.text): source and destination
\* overlap.  Either the text is formatted as written, or the prefix has
\* overwritten the start of the source before %s reads it, and the source
\* then is the prefix followed by what the buffer held behind it (taken
\* here to be the rest of a longer identifier and its terminator).
SprintfUnknown(input, start, len, v, ub) ==
    LET plen == Len(UnknownPrefix(v))
    IN  IF ub = "intended"
        THEN UnknownPrefix(v) \o Text(input, start, len)
        ELSE UnknownPrefix(v) \o UnknownPrefix(v)
             \o (IF len > plen THEN Text(input, start + plen, len - plen) ELSE "")

\* the token type of an identifier, "ERROR" for an unknown one
Keyword(text) ==
    CASE text = "sin" -> "SIN"
      [] text = "cos" -> "COS"
      [] text = "tan" -> "TAN"
      [] text = "sqrt" -> "SQRT"
      [] text = "log" -> "LOG"
      [] text = "exp" -> "EXP"
      [] text = "abs" -> "ABS"
      [] text = "pi" -> "PI"
      [] text = "e" -> "E"
      [] OTHER -> "ERROR"

\* the token for the identifier text, and the lexer at end
IdentifierToken(lexer, end, text) ==
    IF Keyword(text) = "ERROR"
    THEN <<Token("ERROR", Uninit,
                 SprintfUnknown(lexer.input, lexer.position,
                                Copied(lexer.position, end),
                                lexer.variant, lexer.ub)),
           [lexer EXCEPT !.position = end, !.ubhit = TRUE]>>
    ELSE <<Token(Keyword(text),
                 IF Keyword(text) = "PI" THEN M_PI
                 ELSE IF Keyword(text) = "E" THEN M_E ELSE Uninit,
                 text),
           [lexer EXCEPT !.position = end]>>

IdentifierTo(lexer, end) ==
    IdentifierToken(lexer, end,
                    Text(lexer.input, lexer.position, Copied(lexer.position, end)))

lexer_read_identifier(lexer) ==
    IdentifierTo(lexer, ScanAlpha(lexer.input, lexer.position))

UnknownChar(v, c) ==
    (IF v = "cli" THEN "Unexpected character: " ELSE "Unknown: ") \o c

\* the token type of a character that is a token by itself, "ERROR" for
\* any other
Single(c) ==
    CASE c = "+" -> "PLUS"
      [] c = "-" -> "MINUS"
      [] c = "*" -> "MULTIPLY"
      [] c = "/" -> "DIVIDE"
      [] c = "%" -> "MODULO"
      [] c = "^" -> "POWER"
      [] c = "(" -> "LPAREN"
      [] c = ")" -> "RPAREN"
      [] OTHER -> "ERROR"

\* lexer_next_token moving the cursor before it tests for the end of the
\* input: the end is stepped over
TokenAt_past(lexer, c) ==
    IF c = NUL THEN <<Token("EOF", Zero, ""), [lexer EXCEPT !.position = @ + 1]>>
    ELSE IF isdigit(c)
            \/ (c = "." /\ isdigit(CharAt(lexer.input, lexer.position + 1)))
    THEN lexer_read_number(lexer)
    ELSE IF isalpha(c) THEN lexer_read_identifier(lexer)
    ELSE <<Token(Single(c), Zero,
                 IF Single(c) = "ERROR" THEN UnknownChar(lexer.variant, c)
                 ELSE c),
           [lexer EXCEPT !.position = @ + 1]>>

\* lexer_next_token leaving the cursor on a ')' it has read
TokenAt_stuck(lexer, c) ==
    IF c = NUL THEN <<Token("EOF", Zero, ""), lexer>>
    ELSE IF isdigit(c)
            \/ (c = "." /\ isdigit(CharAt(lexer.input, lexer.position + 1)))
    THEN lexer_read_number(lexer)
    ELSE IF isalpha(c) THEN lexer_read_identifier(lexer)
    ELSE <<Token(Single(c), Zero,
                 IF Single(c) = "ERROR" THEN UnknownChar(lexer.variant, c)
                 ELSE c),
           [lexer EXCEPT !.position = IF c = ")" THEN @ ELSE @ + 1]>>

\* lexer_next_token on the character c at the position of lexer
TokenAt(lexer, c) ==
    IF c = NUL THEN <<Token("EOF", Zero, ""), lexer>>
    ELSE IF isdigit(c)
            \/ (c = "." /\ isdigit(CharAt(lexer.input, lexer.position + 1)))
    THEN lexer_read_number(lexer)
    ELSE IF isalpha(c) THEN lexer_read_identifier(lexer)
    ELSE <<Token(Single(c), Zero,
                 IF Single(c) = "ERROR" THEN UnknownChar(lexer.variant, c)
                 ELSE c),
           [lexer EXCEPT !.position = @ + 1]>>

\* lexer_next_token after lexer_skip_whitespace
Skipped(lexer) == TokenAt(lexer, CharAt(lexer.input, lexer.position))

\* <<token, lexer>>
lexer_next_token(lexer) == Skipped(lexer_skip_whitespace(lexer))

\* lexer->current = the token t[1] read, in the lexer t[2] after reading it
Current(t) == [t[2] EXCEPT !.current = t[1]]

lexer_advance(lexer) == Current(lexer_next_token(lexer))

(***************************************************************************)
(* Parser.  A parser is [lexer, error, has_error] and, for the model, the  *)
(* oracle of the call and a record of what the call did:                   *)
(*   undecided  the number of comparisons the oracle settled;              *)
(*   errs       the messages parser_error was called with, in order;       *)
(*   advances   the number of tokens consumed (calls of lexer_advance by   *)
(*              the parse functions);                                      *)
(*   sites      one entry per check the parse functions made: a division   *)
(*              or remainder, a sqrt or log, a closing parenthesis;        *)
(*   top        how the top-level parse_expression ended;                  *)
(*   first      the lexer and the tokens consumed at the first error;      *)
(*   calls      the number of calls of the parse functions;                *)
(*   turns      the number of times a while loop of a parse function went  *)
(*              round.                                                     *)
(* A parse function returns [v, p]: the double it returns and the parser   *)
(* it leaves.                                                              *)
(***************************************************************************)
R(v, p) == [p |-> p, v |-> v]

NoTop == [has_error |-> FALSE, type |-> "none", v |-> Zero]

\* no error recorded yet
NoFirst == [advances |-> -1]

parser_init(lexer, oracle) ==
    [lexer |-> lexer_advance(lexer), has_error |-> FALSE, error |-> "",
     oracle |-> oracle, undecided |-> 0, errs |-> <<>>, advances |-> 0,
     sites |-> <<>>, top |-> NoTop, first |-> NoFirst, calls |-> 0,
     turns |-> 0]

\* strncpy(parser->error, message, 255)
parser_error(p, message) ==
    [p EXCEPT !.has_error = TRUE,
              !.error = IF Len(message) <= 255 THEN message
                        ELSE "<the first 255 characters>",
              !.errs = Append(@, message),
              !.first = IF p.errs # <<>> THEN @
                        ELSE [advances |-> p.advances,
                              position |-> p.lexer.position,
                              current |-> p.lexer.current]]

Advance(p) == [p EXCEPT !.lexer = lexer_advance(@), !.advances = @ + 1]

\* a parse function is entered
Called(p) == [p EXCEPT !.calls = @ + 1]

\* the body of a while loop is entered
Turned(p) == [p EXCEPT !.turns = @ + 1]

\* p with the check of an operand noted: the operand r as its parse function
\* returned it, and whether the check raised its error
Checked(kind, r, raised) ==
    [r.p EXCEPT !.undecided = IF Sign(r.v) = "unk" THEN @ + 1 ELSE @,
                !.sites = Append(@, [kind |-> kind, ok |-> ~r.p.has_error,
                                     x |-> r.v,
                                     cls |-> IF Sign(r.v) = "unk" THEN r.p.oracle
                                             ELSE Sign(r.v),
                                     raised |-> raised,
                                     at |-> r.p.advances])]

\* the sign class a comparison of the code sees in v
Decide(p, v) == IF Sign(v) = "unk" THEN p.oracle ELSE Sign(v)

Msg(p, key) ==
    IF p.lexer.variant = "cli"
    THEN CASE key = "sqrt"  -> "Square root of negative number"
           [] key = "log"   -> "Logarithm of non-positive number"
           [] key = "paren" -> "Expected closing parenthesis"
           [] key = "end"   -> "Unexpected end of expression"
           [] key = "token" -> "Unexpected token: "
           [] key = "extra" -> "Unexpected tokens after expression"
    ELSE CASE key = "sqrt"  -> "Sqrt of negative"
           [] key = "log"   -> "Log of non-positive"
           [] key = "paren" -> "Missing )"
           [] key = "end"   -> "Unexpected end"
           [] key = "token" -> "Unexpected: "
           [] key = "extra" -> "Extra tokens"

\* p with the check for ')' after the inner expression r noted
Closing(r, raised) ==
    [r.p EXCEPT !.sites = Append(@, [kind |-> "paren", ok |-> ~r.p.has_error,
                                     x |-> r.v,
                                     cls |-> r.p.lexer.current.type,
                                     raised |-> raised,
                                     at |-> r.p.advances])]

\* p as the parenthesized primary leaves it, with the value v it returns
Closed(v, p) ==
    [p EXCEPT !.sites = Append(@, [kind |-> "closed", ok |-> ~p.has_error,
                                   x |-> v,
                                   cls |-> p.lexer.current.type,
                                   raised |-> FALSE,
                                   at |-> p.advances])]

RECURSIVE parse_expression(_)
RECURSIVE ExpressionLoop(_)
RECURSIVE parse_term(_)
RECURSIVE TermLoop(_)
RECURSIVE parse_factor(_)
RECURSIVE FactorLoop(_)
RECURSIVE parse_power(_)
RECURSIVE parse_unary(_)
RECURSIVE parse_primary(_)

\* left = left + right or left = left - right, for the operator at l.p and
\* the right operand r as its parse function returned it
Sum(l, r) ==
    R(IF l.p.lexer.current.type = "PLUS"
      THEN V_add(l.v, r.v) ELSE V_sub(l.v, r.v), r.p)

\* ExpressionLoop with the right operand of + and - parsed by parse_factor
\* in place of parse_term
ExpressionLoop_factor(l) ==
    IF l.p.has_error THEN l
    ELSE IF l.p.lexer.current.type \notin {"PLUS", "MINUS"} THEN l
    ELSE ExpressionLoop(Sum(l, parse_factor(Advance(Turned(l.p)))))

\* the while loop of parse_expression, entered with left = l.v and the
\* parser l.p
ExpressionLoop(l) ==
    IF l.p.has_error THEN l
    ELSE IF l.p.lexer.current.type \notin {"PLUS", "MINUS"} THEN l
    ELSE ExpressionLoop(Sum(l, parse_term(Advance(Turned(l.p)))))

parse_expression(p) == ExpressionLoop(parse_term(Called(p)))

\* the body of the while loop of parse_term after its operand: the operator
\* is the token at l.p, the right operand r as parse_factor returned it
Product(l, r) ==
    IF l.p.lexer.current.type = "MULTIPLY"
    THEN TermLoop(R(V_mul(l.v, r.v), r.p))
    ELSE IF Decide(r.p, r.v) = "zero"
    THEN R(Zero, IF l.p.lexer.current.type = "DIVIDE"
                 THEN parser_error(Checked("/", r, TRUE), "Division by zero")
                 ELSE parser_error(Checked("%", r, TRUE), "Modulo by zero"))
    ELSE IF l.p.lexer.current.type = "DIVIDE"
    THEN TermLoop(R(V_div(l.v, r.v), Checked("/", r, FALSE)))
    ELSE TermLoop(R(V_fmod(l.v, r.v), Checked("%", r, FALSE)))

\* the while loop of parse_term, entered with left = l.v and the parser l.p
TermLoop(l) ==
    IF l.p.has_error THEN l
    ELSE IF l.p.lexer.current.type \notin {"MULTIPLY", "DIVIDE", "MODULO"} THEN l
    ELSE Product(l, parse_factor(Advance(Turned(l.p))))

parse_term(p) == TermLoop(parse_factor(Called(p)))

\* left = left * right with the right operand r as parse_power returned it
Times(l, r) == R(V_mul(l.v, r.v), r.p)

\* the while loop of the macOS parse_factor: implicit multiplication
FactorLoop(l) ==
    IF l.p.has_error THEN l
    ELSE IF l.p.lexer.current.type \notin
              {"PI", "E", "LPAREN", "SIN", "COS", "TAN", "SQRT", "LOG", "EXP",
               "ABS", "NUMBER"}
    THEN l
    ELSE FactorLoop(Times(l, parse_power(Turned(l.p))))

\* parse_factor of the TUI in every front end: parse_power and nothing more
parse_factor_plain(p) == parse_power(Called(p))

parse_factor(p) ==
    IF p.lexer.variant = "mac" THEN FactorLoop(parse_power(Called(p)))
    ELSE parse_power(Called(p))

\* pow(left, right) with the right operand r as its parse function returned it
Power(l, r) == R(V_pow(l.v, r.v), r.p)

\* parse_power as a loop over its right operands, which groups to the left
parse_power_left(p) ==
    LET RECURSIVE Loop(_)
        Loop(l) ==
            IF l.p.has_error THEN l
            ELSE IF l.p.lexer.current.type # "POWER" THEN l
            ELSE Loop(Power(l, parse_unary(Advance(l.p))))
    IN  Loop(parse_unary(Called(p)))

\* parse_power with its exponent parsed by parse_factor: the exponent takes
\* the implicit product that follows it
PowerTail_factor(l) ==
    IF l.p.has_error THEN l
    ELSE IF l.p.lexer.current.type # "POWER" THEN l
    ELSE Power(l, parse_factor(Advance(l.p)))

\* parse_power after its left operand l
PowerTail(l) ==
    IF l.p.has_error THEN l
    ELSE IF l.p.lexer.current.type # "POWER" THEN l
    ELSE Power(l, parse_power(Advance(l.p)))

parse_power(p) == PowerTail(parse_unary(Called(p)))

\* the function tokens of parse_unary
Functions == {"SIN", "COS", "TAN", "SQRT", "LOG", "EXP", "ABS"}

\* parse_unary on function token type, with r what parse_primary returned
\* for its argument
ApplyFunction(type, r, p) ==
    CASE type = "SIN" -> R(V_sin(r.v), r.p)
      [] type = "COS" -> R(V_cos(r.v), r.p)
      [] type = "TAN" -> R(V_tan(r.v), r.p)
      [] type = "SQRT" ->
            IF Decide(r.p, r.v) = "neg"
            THEN R(Zero, parser_error(Checked("sqrt", r, TRUE), Msg(p, "sqrt")))
            ELSE R(V_sqrt(r.v), Checked("sqrt", r, FALSE))
      [] type = "LOG" ->
            IF Decide(r.p, r.v) \in {"neg", "zero"}
            THEN R(Zero, parser_error(Checked("log", r, TRUE), Msg(p, "log")))
            ELSE R(V_log(r.v), Checked("log", r, FALSE))
      [] type = "EXP" -> R(V_exp(r.v), r.p)
      [] type = "ABS" -> R(V_fabs(r.v), r.p)

\* -parse_unary(parser)
Negated(r) == R(V_neg(r.v), r.p)

\* parse_unary with the sign applied to the whole power that follows it,
\* as if unary minus bound more loosely than ^
parse_unary_loose(p) ==
    CASE p.lexer.current.type = "MINUS" -> Negated(parse_power(Advance(Called(p))))
      [] p.lexer.current.type = "PLUS" -> parse_power(Advance(Called(p)))
      [] p.lexer.current.type \in Functions ->
            ApplyFunction(p.lexer.current.type, parse_primary(Advance(Called(p))), p)
      [] OTHER -> parse_primary(Called(p))

parse_unary(p) ==
    CASE p.lexer.current.type = "MINUS" -> Negated(parse_unary(Advance(Called(p))))
      [] p.lexer.current.type = "PLUS" -> parse_unary(Advance(Called(p)))
      [] p.lexer.current.type \in Functions ->
            ApplyFunction(p.lexer.current.type, parse_primary(Advance(Called(p))), p)
      [] OTHER -> parse_primary(Called(p))

\* parse_primary after the expression in parentheses, which returned r
Parenthesized(p, r) ==
    IF r.p.lexer.current.type # "RPAREN"
    THEN R(Zero, parser_error(Closing(r, TRUE), Msg(p, "paren")))
    ELSE R(r.v, Closed(r.v, Advance(Closing(r, FALSE))))

\* parse_primary taking the end of the input for the number 0
parse_primary_eof(p) ==
    CASE p.lexer.current.type \in {"NUMBER", "PI", "E"} ->
            R(p.lexer.current.value, Advance(Called(p)))
      [] p.lexer.current.type = "LPAREN" ->
            Parenthesized(p, parse_expression(Advance(Called(p))))
      [] p.lexer.current.type = "EOF" -> R(Zero, Called(p))
      [] p.lexer.current.type = "ERROR" ->
            R(Zero, parser_error(Called(p), p.lexer.current.text))
      [] OTHER ->
            R(Zero, parser_error(Called(p), Msg(p, "token") \o p.lexer.current.text))

parse_primary(p) ==
    CASE p.lexer.current.type \in {"NUMBER", "PI", "E"} ->
            R(p.lexer.current.value, Advance(Called(p)))
      [] p.lexer.current.type = "LPAREN" ->
            Parenthesized(p, parse_expression(Advance(Called(p))))
      [] p.lexer.current.type = "EOF" -> R(Zero, parser_error(Called(p), Msg(p, "end")))
      [] p.lexer.current.type = "ERROR" ->
            R(Zero, parser_error(Called(p), p.lexer.current.text))
      [] OTHER ->
            R(Zero, parser_error(Called(p), Msg(p, "token") \o p.lexer.current.text))

\* what evaluate hands back for the value v parsed and the parser p1 as it
\* is after evaluate's last check
Outcome(variant_, v, p1) ==
    IF p1.has_error
    THEN [value |-> Zero,
          error_msg |-> IF variant_ \in {"tui", "mac"} THEN p1.error ELSE "",
          error |-> IF variant_ \in {"cli", "x11"} THEN 1 ELSE -1,
          printed |-> IF variant_ = "cli" THEN <<"Error: " \o p1.error>> ELSE <<>>,
          result_text |-> IF variant_ = "x11" THEN <<p1.error>> ELSE <<>>,
          parser |-> p1]
    ELSE [value |-> v,
          error_msg |-> "",
          error |-> IF variant_ \in {"cli", "x11"} THEN 0 ELSE -1,
          printed |-> <<>>, result_text |-> <<>>,
          parser |-> p1]

\* r.p with the way the top-level parse_expression ended noted
Top(r) ==
    [r.p EXCEPT !.top = [has_error |-> r.p.has_error,
                         type |-> r.p.lexer.current.type,
                         v |-> r.v]]

\* evaluate after parse_expression returned r
Returned(v, r) ==
    IF r.p.has_error THEN Outcome(v, r.v, Top(r))
    ELSE IF r.p.lexer.current.type # "EOF"
    THEN Outcome(v, r.v, parser_error(Top(r), Msg(r.p, "extra")))
    ELSE Outcome(v, r.v, Top(r))

\* ... with the value parsed so far returned when the parser has an error
ReturnedPartial(v, r) == [Returned(v, r) EXCEPT !.value = r.v]

\* ... without the check for tokens left after the expression
ReturnedPrefix(v, r) == Outcome(v, r.v, Top(r))

\* evaluate returning the value parsed so far when the parser has an error
evaluate_partial(input, v, oracle, ub) ==
    ReturnedPartial(v, parse_expression(parser_init(lexer_init(input, v, ub), oracle)))

\* evaluate without the check for tokens left after the expression
evaluate_prefix(input, v, oracle, ub) ==
    ReturnedPrefix(v, parse_expression(parser_init(lexer_init(input, v, ub), oracle)))

\* evaluate(expression, ...) of front end v: the double returned, the
\* out-parameter (error_msg in the TUI and macOS, *error in the CLI and
\* X11), what was printed or stored, and the parser as the call leaves it
evaluate(input, v, oracle, ub) ==
    Returned(v, parse_expression(parser_init(lexer_init(input, v, ub), oracle)))

(***************************************************************************)
(* Inputs.  A family names a set of strings: either every concatenation of *)
(* at most MaxLen lexemes of a small vocabulary, or the well-formed        *)
(* arithmetic expressions with at most MaxOps binary operators; of these,  *)
(* the strings that open at most MaxNest parentheses.                      *)
(***************************************************************************)
Chars(str) ==
    CASE str = "sqrt" -> <<"s", "q", "r", "t">>
      [] str = "log"  -> <<"l", "o", "g">>
      [] str = "sin"  -> <<"s", "i", "n">>
      [] str = "exp"  -> <<"e", "x", "p">>
      [] str = "cos"  -> <<"c", "o", "s">>
      [] str = "tan"  -> <<"t", "a", "n">>
      [] str = "abs"  -> <<"a", "b", "s">>
      [] str = "in"   -> <<"i", "n">>
      [] str = "pi"   -> <<"p", "i">>
      [] str = "16"   -> <<"1", "6">>
      [] str = "(-1)" -> <<"(", "-", "1", ")">>
      [] OTHER        -> <<str>>

RECURSIVE Concats(_, _)
\* the concatenations of at most n lexemes
Concats(lexemes, n) ==
    IF n = 0 THEN {<<>>}
    ELSE LET shorter == Concats(lexemes, n - 1)
         IN  shorter \cup {s \o Chars(l) : s \in shorter, l \in lexemes}

Literals == {<<"2">>, <<"3">>, <<"4">>}

RECURSIVE Operand(_)
RECURSIVE WellFormed(_)
\* the well-formed expressions with exactly n binary operators + - *
WellFormed(n) ==
    IF n = 0 THEN Literals
    ELSE UNION {{a \o <<op>> \o b : a \in Operand(i), b \in Operand(n - 1 - i)}
                : i \in 0..(n - 1), op \in {"+", "-", "*"}}

\* ... each used as it is or, when it has an operator, in parentheses
Operand(n) ==
    IF n = 0 THEN Literals
    ELSE WellFormed(n) \cup {<<"(">> \o w \o <<")">> : w \in WellFormed(n)}

Families ==
    {"arith", "errors", "blank", "domain", "power", "repeat", "implicit", "unary",
     "names", "spaces", "signs", "mixed", "long"}

\* 2pi, 2(3+4) and 2sin(0)
Juxtaposed ==
    {<<"2", "p", "i">>, <<"2", "(", "3", "+", "4", ")">>,
     <<"2", "s", "i", "n", "(", "0", ")">>}

\* 3/2(3), 3%2(2), 3/2 3 and 2^3(3)
Grouped ==
    {<<"3", "/", "2", "(", "3", ")">>, <<"3", "%", "2", "(", "2", ")">>,
     <<"3", "/", "2", " ", "3">>, <<"2", "^", "3", "(", "3", ")">>}

\* n times the character c
Run(c, n) == [i \in 1..n |-> c]

\* a long identifier: from as many letters less than MAX_TOKEN_LEN as the
\* longer prefix of the diagnostic has characters, and one more, to MaxOver
\* more than MAX_TOKEN_LEN
LongRuns ==
    {Run("x", n) :
        n \in (MAX_TOKEN_LEN - Len("Unknown identifier: ") - 1)
                 ..(MAX_TOKEN_LEN + MaxOver)}

\* the number of opening parentheses of s
Opens(s) == Cardinality({i \in DOMAIN s : s[i] = "("})

Strings(f) ==
    CASE f = "arith"  -> UNION {Operand(n) : n \in 0..MaxOps}
      [] f = "errors" -> Concats({"2", "0", "+", "/", "%", "(", ")", "log", "#", " "}, MaxLen)
      [] f = "blank"  -> Concats({" ", "\t", "\n", "2"}, MaxLen)
      [] f = "domain" -> Concats({"sqrt", "log", "(", ")", "(-1)", "0", "16", "/"}, MaxLen)
      [] f = "power"  -> Concats({"2", "3", "^", "-", "(", ")"}, MaxLen + 2)
      [] f = "repeat" -> Concats({"2", "+", "x"}, MaxLen)
      [] f = "implicit" ->
            Concats({"2", "3", "pi", "(", ")", "+", "sin"}, MaxLen) \cup Juxtaposed
      [] f = "unary" ->
            Concats({"sin", "exp", "log", "0", "2", "^", "-", "(", ")", " "}, MaxLen)
      [] f = "spaces" ->
            Concats({"2", ".", "+", "(", "pi", " "}, MaxLen)
      [] f = "names" ->
            Concats({"sin", "pi", "e", "S", "in", "x", "2", "+"}, MaxLen)
               \cup {Chars(w) : w \in {"cos", "tan", "sqrt", "log", "exp", "abs"}}
      [] f = "signs" -> Concats({"2", "3", "^", "-", "+"}, MaxLen + 1)
      [] f = "long" -> LongRuns
      [] f = "mixed" ->
            Concats({"2", "pi", "-", "*", "/", "%", "^", "(", ")"}, MaxLen)
               \cup Grouped

InputsOf(f) == {s \in Strings(f) : Opens(s) <= MaxNest}

VariantsOf(f) ==
    CASE f = "arith"  -> {"tui", "mac"}
      [] f = "errors" -> Variants
      [] f = "blank"  -> Variants
      [] f = "domain" -> {"tui", "cli"}
      [] f = "power"  -> {"tui"}
      [] f = "repeat" -> {"tui"}
      [] f = "implicit" -> Variants
      [] f = "unary" -> {"tui", "cli"}
      [] f = "names" -> Variants
      [] f = "spaces" -> {"tui", "mac"}
      [] f = "signs" -> {"tui", "mac"}
      [] f = "mixed" -> {"tui", "mac"}
      [] f = "long" -> Variants

(***************************************************************************)
(* The calls of evaluate.                                                  *)
(***************************************************************************)
NoParser == [has_error |-> FALSE, error |-> "", errs |-> <<>>, sites |-> <<>>,
             top |-> NoTop]

\* no call noted
NoCall == [variant |-> "none", expression |-> <<>>, result |-> Zero,
           error_msg |-> "", error |-> -1]

\* History history = {0}
NoHistory ==
    [expressions |-> [i \in 0..(MAX_HISTORY - 1) |-> <<>>],
     results |-> [i \in 0..(MAX_HISTORY - 1) |-> Zero],
     errors |-> [i \in 0..(MAX_HISTORY - 1) |-> 0],
     count |-> 0,
     current |-> 0]

Idle ==
    /\ current_expr = <<>>
    /\ cursor_pos = 0
    /\ history = NoHistory
    /\ main_pc = "read"
    /\ submitted = <<>>
    /\ ups = -1
    /\ downs = 0
    /\ pc = "idle"
    /\ variant = "none"
    /\ expression = <<>>
    /\ result = Zero
    /\ error_msg = ""
    /\ error = -1
    /\ stdout = <<>>
    /\ result_text = <<>>
    /\ parser = NoParser
    /\ earlier = NoCall

\* a front end hands a string to its evaluate
Submit ==
    /\ pc = "idle"
    /\ \E v \in VariantsOf(family), e \in InputsOf(family) :
          /\ variant' = v
          /\ expression' = e
    /\ pc' = "ready"
    /\ UNCHANGED <<family, result, error_msg, error, stdout, result_text, parser,
                   earlier>>
    /\ UNCHANGED tui_vars

\* the outcomes of one call: one per outcome of what the C standard and the
\* model leave open
Choices(e, v, r0) ==
    IF r0.parser.undecided = 0 /\ ~r0.parser.lexer.ubhit THEN {r0}
    ELSE {r \in {evaluate(e, v, o, ub) :
                    o \in SignClasses, ub \in SprintfOutcomes} :
            r.parser.undecided <= 1}

Outcomes(e, v) == Choices(e, v, evaluate(e, v, "pos", "intended"))

\* evaluate runs from its first to its last line
Evaluate ==
    /\ pc = "ready"
    /\ \E r \in Outcomes(expression, variant) :
          /\ result' = r.value
          /\ error_msg' = r.error_msg
          /\ error' = r.error
          /\ stdout' = r.printed
          /\ result_text' = r.result_text
          /\ parser' = r.parser
    /\ pc' = "done"
    /\ UNCHANGED <<family, variant, expression, earlier>>
    /\ UNCHANGED tui_vars

\* the caller has used the outcome; nothing of the call is kept
Return ==
    /\ pc = "done"
    /\ pc' = "idle"
    /\ variant' = "none"
    /\ expression' = <<>>
    /\ result' = Zero
    /\ error_msg' = ""
    /\ error' = -1
    /\ stdout' = <<>>
    /\ result_text' = <<>>
    /\ parser' = NoParser
    /\ UNCHANGED <<family, earlier>>
    /\ UNCHANGED tui_vars

Next == Submit \/ Evaluate \/ Return

\* the caller notes the outcome of the call that has ended, once
Remember ==
    /\ pc = "done"
    /\ earlier = NoCall
    /\ earlier' = [variant |-> variant, expression |-> expression,
                   result |-> result, error_msg |-> error_msg, error |-> error]
    /\ UNCHANGED <<family, pc, variant, expression, result, error_msg, error,
                   stdout, result_text, parser>>
    /\ UNCHANGED tui_vars

NextRepeat == Submit \/ Evaluate \/ Return \/ Remember

(***************************************************************************)
(* The terminal UI.  main reads the terminal byte by byte (raw mode, VMIN  *)
(* 1, VTIME 0: a read waits for a byte and returns 0 only at the end of    *)
(* the input).  A byte is a one-character string, or one of "ESC" (27),    *)
(* "EOT" (4), "LF", "CR", "DEL" (127), "BS" (8) and "EOF" for the read     *)
(* that returns 0.  A key sends one byte, an arrow key the three bytes ESC *)
(* [ A..D; the keys of the model are 2, +, x, Enter, Backspace, Escape,    *)
(* the four arrows, Ctrl-D and the end of the input.  t is the state of    *)
(* the program: the three globals, the read main waits at ("exit" after    *)
(* the loop, "abort" where the process was ended in evaluate), and the     *)
(* expressions submitted so far.                                           *)
(***************************************************************************)
Now ==
    [current_expr |-> current_expr, cursor_pos |-> cursor_pos, history |-> history,
     main_pc |-> main_pc, submitted |-> submitted]

\* add_to_history writing over the newest entry of a full history, the
\* older entries staying where they are
add_to_history_over(h, expr, value, err) ==
    [h EXCEPT !.expressions[IF h.count < MAX_HISTORY THEN h.count
                            ELSE MAX_HISTORY - 1] = expr,
              !.results[IF h.count < MAX_HISTORY THEN h.count
                        ELSE MAX_HISTORY - 1] = value,
              !.errors[IF h.count < MAX_HISTORY THEN h.count
                       ELSE MAX_HISTORY - 1] = err,
              !.count = IF h.count < MAX_HISTORY THEN h.count + 1 ELSE h.count,
              !.current = IF h.count < MAX_HISTORY THEN h.count + 1 ELSE h.count]

add_to_history(h, expr, value, err) ==
    IF h.count < MAX_HISTORY
    THEN [h EXCEPT !.expressions[h.count] = expr,
                   !.results[h.count] = value,
                   !.errors[h.count] = err,
                   !.count = h.count + 1,
                   !.current = h.count + 1]
    ELSE [h EXCEPT !.expressions = [i \in 0..(MAX_HISTORY - 1) |->
                                      IF i < MAX_HISTORY - 1 THEN h.expressions[i + 1]
                                      ELSE expr],
                   !.results = [i \in 0..(MAX_HISTORY - 1) |->
                                  IF i < MAX_HISTORY - 1 THEN h.results[i + 1]
                                  ELSE value],
                   !.errors = [i \in 0..(MAX_HISTORY - 1) |->
                                 IF i < MAX_HISTORY - 1 THEN h.errors[i + 1] ELSE err],
                   !.current = h.count]

\* current_expr[0] = 0; cursor_pos = 0
Cleared(t) == [t EXCEPT !.current_expr = <<>>, !.cursor_pos = 0]

\* history.current = i; strcpy(current_expr, history.expressions[i]);
\* cursor_pos = strlen(current_expr)
Loaded(t, i) ==
    [t EXCEPT !.history.current = i,
              !.current_expr = t.history.expressions[i],
              !.cursor_pos = Len(t.history.expressions[i])]

\* ESC [ A
ArrowUp(t) ==
    IF t.history.current > 0 THEN Loaded(t, t.history.current - 1) ELSE t

\* ESC [ B
ArrowDown(t) ==
    IF t.history.current < t.history.count - 1
    THEN Loaded(t, t.history.current + 1)
    ELSE IF t.history.current = t.history.count - 1
    THEN Cleared([t EXCEPT !.history.current = t.history.count])
    ELSE t

\* ESC [ C
ArrowRight(t) ==
    IF t.cursor_pos < Len(t.current_expr) THEN [t EXCEPT !.cursor_pos = @ + 1] ELSE t

\* ESC [ D
ArrowLeft(t) ==
    IF t.cursor_pos > 0 THEN [t EXCEPT !.cursor_pos = @ - 1] ELSE t

\* '\n' or '\r', with r what evaluate returns for the edit line
Entered(t, r) ==
    IF Len(t.current_expr) > 0
    THEN Cleared([t EXCEPT !.history = add_to_history(@, t.current_expr, r.value,
                                                      IF r.error_msg # "" THEN 1 ELSE 0),
                           !.submitted = Append(@, t.current_expr)])
    ELSE t

\* 127 or 8
Erased(t) ==
    IF t.cursor_pos > 0
    THEN [t EXCEPT !.current_expr = SubSeq(@, 1, t.cursor_pos - 1)
                                      \o SubSeq(@, t.cursor_pos + 1, Len(@)),
                   !.cursor_pos = @ - 1]
    ELSE t

\* a printable character put into a full buffer as well
Typed_over(t, c) ==
    [t EXCEPT !.current_expr = SubSeq(@, 1, t.cursor_pos) \o <<c>>
                                  \o SubSeq(@, t.cursor_pos + 1, Len(@)),
              !.cursor_pos = @ + 1]

\* a printable character c
Typed(t, c) ==
    IF Len(t.current_expr) < MAX_EXPR_LEN - 1
    THEN [t EXCEPT !.current_expr = SubSeq(@, 1, t.cursor_pos) \o <<c>>
                                      \o SubSeq(@, t.cursor_pos + 1, Len(@)),
                   !.cursor_pos = @ + 1]
    ELSE t

\* c >= 32 && c < 127, of the bytes of the model
Printable == {"2", "+", "x", "[", "A", "B", "C", "D"}

\* the body of the loop of main for the byte c read at its top
main_read(t, c, r) ==
    CASE c \in {"EOF", "EOT"} -> [t EXCEPT !.main_pc = "exit"]
      [] c = "ESC" -> [t EXCEPT !.main_pc = "esc"]
      [] c \in {"LF", "CR"} -> Entered(t, r)
      [] c \in {"DEL", "BS"} -> Erased(t)
      [] c \in Printable -> Typed(t, c)
      [] OTHER -> t

\* ... from the read of seq[0]: at the end of the input the line is
\* cleared, and the read at the top of the loop then ends the loop
main_seq0(t, c) ==
    IF c = "EOF" THEN [Cleared(t) EXCEPT !.main_pc = "exit"]
    ELSE IF c = "[" THEN [t EXCEPT !.main_pc = "bracket"]
    ELSE [t EXCEPT !.main_pc = "read"]

\* ... from the read of seq[1]
main_seq1(t, c) ==
    CASE c = "EOF" -> [t EXCEPT !.main_pc = "exit"]
      [] c = "A" -> [ArrowUp(t) EXCEPT !.main_pc = "read"]
      [] c = "B" -> [ArrowDown(t) EXCEPT !.main_pc = "read"]
      [] c = "C" -> [ArrowRight(t) EXCEPT !.main_pc = "read"]
      [] c = "D" -> [ArrowLeft(t) EXCEPT !.main_pc = "read"]
      [] OTHER -> [t EXCEPT !.main_pc = "read"]

\* main goes on with the byte c from the read it waits at
main(t, c, r) ==
    CASE t.main_pc = "read" -> main_read(t, c, r)
      [] t.main_pc = "esc" -> main_seq0(t, c)
      [] t.main_pc = "bracket" -> main_seq1(t, c)
      [] OTHER -> t

RECURSIVE Fed(_, _, _)
\* main reads the bytes given, one after the other
Fed(t, bytes, r) ==
    IF bytes = <<>> THEN t ELSE Fed(main(t, Head(bytes), r), Tail(bytes), r)

Keys ==
    {"2", "+", "x", "Enter", "Backspace", "Escape", "Up", "Down", "Right", "Left",
     "Ctrl-D", "End"}

\* the bytes the terminal sends for a key
BytesOf(key) ==
    CASE key = "2" -> <<"2">>
      [] key = "+" -> <<"+">>
      [] key = "x" -> <<"x">>
      [] key = "Enter" -> <<"LF">>
      [] key = "Backspace" -> <<"DEL">>
      [] key = "Escape" -> <<"ESC">>
      [] key = "Up" -> <<"ESC", "[", "A">>
      [] key = "Down" -> <<"ESC", "[", "B">>
      [] key = "Right" -> <<"ESC", "[", "C">>
      [] key = "Left" -> <<"ESC", "[", "D">>
      [] key = "Ctrl-D" -> <<"EOT">>
      [] key = "End" -> <<"EOF">>

Range(s) == {s[i] : i \in DOMAIN s}

\* the submitted expressions other than 2
Marked(exprs) == Cardinality({i \in DOMAIN exprs : exprs[i] # <<"2">>})

\* the lengths of a line of letters around the one whose diagnostic fills
\* the text of a token
Overlong ==
    (MAX_TOKEN_LEN - Len("Unknown: ") - 1)..(MAX_TOKEN_LEN - Len("Unknown: ") + MaxOver)

\* the keys pressed.  An arrow key is pressed only while main waits at the
\* top of its loop, and the keys 2 and + while the line has fewer than
\* MaxLine characters.  In a session of many expressions the key + is
\* pressed on an empty line after the first submission and is the whole
\* line, and Enter is pressed
\* while fewer than MaxSubmit expressions have been submitted, of which at
\* most MaxMarked are not 2.  In a session of editing the keys 2 and + are
\* pressed in any order and the key x on a line of nothing but x, up to the
\* full buffer before the first submission; Left and Right are pressed on a
\* line of at most MaxLine characters, and Enter while fewer than MaxEdit
\* expressions have been submitted: the first time on a line of at most
\* MaxLine characters or of one of the lengths of Overlong, and after that
\* on a line of at most MaxLine characters that are all x
Pressable(key) ==
    /\ main_pc \notin {"exit", "abort"}
    /\ key \in {"Up", "Down", "Right", "Left"} => main_pc = "read"
    /\ key \in {"2", "+"} => Len(current_expr) < MaxLine
    /\ (key = "2" /\ family = "session") => "+" \notin Range(current_expr)
    /\ (key = "+" /\ family = "session") =>
          (Len(current_expr) = 0 /\ Len(submitted) = 1)
    /\ key = "x" =>
          /\ family = "edit"
          /\ Range(current_expr) \subseteq {"x"}
          /\ Len(current_expr) >= MaxLine => submitted = <<>>
    /\ (key \in {"Right", "Left"} /\ family = "edit") =>
          Len(current_expr) <= MaxLine
    /\ (key = "Enter" /\ family = "session") =>
          /\ Len(submitted) < MaxSubmit
          /\ Marked(Append(submitted, current_expr)) <= MaxMarked
    /\ (key = "Enter" /\ family = "edit") =>
          /\ Len(submitted) < MaxEdit
          /\ Len(current_expr) <= MaxLine \/ Len(current_expr) \in Overlong
          /\ submitted # <<>> =>
                (Len(current_expr) <= MaxLine /\ Range(current_expr) \subseteq {"x"})

\* the program goes to the state t
Becomes(t) ==
    /\ current_expr' = t.current_expr
    /\ cursor_pos' = t.cursor_pos
    /\ history' = t.history
    /\ main_pc' = t.main_pc
    /\ submitted' = t.submitted
    /\ UNCHANGED calc_vars

\* evaluate is not called
NoOutcome == [value |-> Zero, error_msg |-> ""]

\* main has read the bytes of a key that is neither Enter nor Up nor Down
Handled(key) ==
    /\ Becomes(Fed(Now, BytesOf(key), NoOutcome))
    /\ ups' = -1
    /\ downs' = 0

Type ==
    \E key \in {"2", "x"} :
        /\ Pressable(key)
        /\ Handled(key)

TypePlus ==
    /\ Pressable("+")
    /\ Handled("+")

Backspace ==
    /\ Pressable("Backspace")
    /\ Handled("Backspace")

Escape ==
    /\ Pressable("Escape")
    /\ Handled("Escape")

Right ==
    /\ Pressable("Right")
    /\ Handled("Right")

Left ==
    /\ Pressable("Left")
    /\ Handled("Left")

CtrlD ==
    /\ Pressable("Ctrl-D")
    /\ Handled("Ctrl-D")

EndOfInput ==
    /\ Pressable("End")
    /\ Handled("End")

\* the process is ended by the run-time check of the write of sprintf past
\* the text of a token, where the build has one
Aborted(t) == [t EXCEPT !.main_pc = "abort"]

\* what evaluate called with the edit line can do to the program besides
\* returning r: the diagnostic of an unknown identifier that does not fit
\* the text of the token is written past it
Smashes(r) == Len(r.parser.lexer.current.text) > MAX_TOKEN_LEN - 1

\* what evaluate returns where Enter makes main call it
Evaluated(t) ==
    IF t.main_pc = "read" /\ Len(t.current_expr) > 0
    THEN Outcomes(t.current_expr, "tui") ELSE {NoOutcome}

\* the states main can be in after Enter, evaluate returning r if called:
\* where evaluate is called and writes past the text of a token, the
\* behaviour is undefined, and the program goes on or is ended
AfterEnter(t, r) ==
    {Fed(t, BytesOf("Enter"), r)}
        \cup (IF t.main_pc = "read" /\ Len(t.current_expr) > 0 /\ Smashes(r)
              THEN {Aborted(t)} ELSE {})

Enter ==
    /\ Pressable("Enter")
    /\ \E r \in Evaluated(Now) :
          \E t \in AfterEnter(Now, r) : Becomes(t)
    /\ ups' = IF main_pc = "read" /\ Len(current_expr) > 0 THEN 0 ELSE -1
    /\ downs' = 0

Up ==
    /\ Pressable("Up")
    /\ Becomes(Fed(Now, BytesOf("Up"), NoOutcome))
    /\ ups' = IF ups >= 0 /\ downs = 0
              THEN (IF ups <= MAX_HISTORY THEN ups + 1 ELSE ups)
              ELSE -1
    /\ downs' = 0

Down ==
    /\ Pressable("Down")
    /\ Becomes(Fed(Now, BytesOf("Down"), NoOutcome))
    /\ ups' = ups
    /\ downs' = IF ups >= 0 THEN (IF downs <= MAX_HISTORY THEN downs + 1 ELSE downs)
                ELSE 0

NextTui ==
    \/ Type \/ TypePlus \/ Enter \/ Backspace \/ Escape \/ Up \/ Down \/ Right
    \/ Left \/ CtrlD \/ EndOfInput

Init == family \in Families /\ Idle

InitArith == family = "arith" /\ Idle

InitErrors == family = "errors" /\ Idle

InitBlank == family = "blank" /\ Idle

InitDomain == family = "domain" /\ Idle

InitPower == family = "power" /\ Idle

InitRepeat == family = "repeat" /\ Idle

InitImplicit == family = "implicit" /\ Idle

InitUnary == family = "unary" /\ Idle

InitSigns == family = "signs" /\ Idle

InitMixed == family = "mixed" /\ Idle

InitLong == family = "long" /\ Idle

InitNames == family = "names" /\ Idle

InitSpaces == family = "spaces" /\ Idle

Spec == Init /\ [][Next]_vars

SpecArith == InitArith /\ [][Next]_vars

SpecErrors == InitErrors /\ [][Next]_vars

SpecBlank == InitBlank /\ [][Next]_vars

SpecDomain == InitDomain /\ [][Next]_vars

SpecPower == InitPower /\ [][Next]_vars

SpecRepeat == InitRepeat /\ [][NextRepeat]_vars

SpecImplicit == InitImplicit /\ [][Next]_vars

SpecUnary == InitUnary /\ [][Next]_vars

SpecSigns == InitSigns /\ [][Next]_vars

SpecMixed == InitMixed /\ [][Next]_vars

SpecLong == InitLong /\ [][Next]_vars

SpecNames == InitNames /\ [][Next]_vars

SpecSpaces == InitSpaces /\ [][Next]_vars

InitTui == family = "session" /\ Idle

SpecTui == InitTui /\ [][NextTui]_vars

InitEdit == family = "edit" /\ Idle

SpecEdit == InitEdit /\ [][NextTui]_vars

(***************************************************************************)
(* Reference semantics of well-formed arithmetic, by splitting the string  *)
(* at its last operator of lowest precedence outside parentheses.          *)
(***************************************************************************)
Depth(s, i) ==
    Cardinality({j \in 1..(i - 1) : s[j] = "("})
        - Cardinality({j \in 1..(i - 1) : s[j] = ")"})

TopLevel(s, ops) == {i \in 1..Len(s) : s[i] \in ops /\ Depth(s, i) = 0}

Last(S) == CHOOSE x \in S : \A y \in S : y <= x

RECURSIVE Decimal(_)
Decimal(s) ==
    IF s = <<>> THEN 0
    ELSE 10 * Decimal(SubSeq(s, 1, Len(s) - 1)) + DigitVal(s[Len(s)])

RECURSIVE Standard(_)
Standard(s) ==
    LET add == TopLevel(s, {"+", "-"})
        mul == TopLevel(s, {"*"})
        i   == IF add # {} THEN Last(add) ELSE Last(mul)
        a   == Standard(SubSeq(s, 1, i - 1))
        b   == Standard(SubSeq(s, i + 1, Len(s)))
    IN  IF add # {} THEN (IF s[i] = "+" THEN a + b ELSE a - b)
        ELSE IF mul # {} THEN a * b
        ELSE IF s[1] = "(" THEN Standard(SubSeq(s, 2, Len(s) - 1))
        ELSE Decimal(s)

(***************************************************************************)
(* C1.  Every well-formed expression of integer literals, + - * and        *)
(* parentheses is evaluated without error, and the value returned is the   *)
(* one standard precedence gives: * binds tighter than + and -, operators  *)
(* of one level associate to the left, parentheses group.                  *)
(***************************************************************************)
C1_StandardPrecedence ==
    (pc = "done" /\ family = "arith") =>
        /\ ~parser.has_error
        /\ parser.errs = <<>>
        /\ error_msg = ""
        /\ error # 1
        /\ stdout = <<>>
        /\ result = [k |-> "q", n |-> Standard(expression), d |-> 1, ex |-> TRUE]

\* 2+3*4 has been evaluated to 14
C1_Witness ==
    /\ pc = "done"
    /\ family = "arith"
    /\ expression = <<"2", "+", "3", "*", "4">>
    /\ result = [k |-> "q", n |-> 14, d |-> 1, ex |-> TRUE]
    /\ ~parser.has_error

(***************************************************************************)
(* C2.  The first error an evaluation records is the one reported:         *)
(* parser_error is called at most once per evaluation, so the message      *)
(* evaluate hands back is the message of the first failure, also when a    *)
(* failed operand is followed by a zero-divisor, log-domain or closing-    *)
(* parenthesis check.                                                      *)
(***************************************************************************)
C2_FirstErrorWins ==
    pc = "done" =>
        /\ Len(parser.errs) <= 1
        /\ parser.has_error <=> parser.errs # <<>>
        /\ parser.has_error => parser.error = parser.errs[1]

(***************************************************************************)
(* C3.  For every / and % whose right operand was parsed and is exactly 0, *)
(* evaluate returns the error "Division by zero" (for /) or "Modulo by     *)
(* zero" (for %) and the number 0, and the division or remainder is not    *)
(* computed; for every / and % whose right operand is not 0, the operator  *)
(* raises neither error.                                                   *)
(***************************************************************************)
C3_ZeroDivisor ==
    pc = "done" =>
        \A i \in DOMAIN parser.sites :
            LET s == parser.sites[i]
            IN  (s.kind \in {"/", "%"} /\ s.ok) =>
                    IF s.cls = "zero"
                    THEN /\ s.raised
                         /\ parser.has_error
                         /\ parser.error = (IF s.kind = "/" THEN "Division by zero"
                                                            ELSE "Modulo by zero")
                         /\ result = Zero
                    ELSE ~s.raised

(***************************************************************************)
(* C4.  A call of evaluate ends in exactly one of two ways: with an error  *)
(* (the parser's has_error set, a non-empty message, the number 0          *)
(* returned) or with a number and no sign of an error.  In the TUI and     *)
(* macOS evaluators the message handed back is non-empty exactly when the  *)
(* parser recorded an error; in the CLI and X11 evaluators *error is 1     *)
(* exactly then.                                                           *)
(***************************************************************************)
C4_ErrorOrNumber ==
    pc = "done" =>
        /\ \/ /\ parser.has_error
              /\ parser.error # ""
              /\ result = Zero
           \/ /\ ~parser.has_error
              /\ parser.error = ""
              /\ parser.errs = <<>>
              /\ stdout = <<>>
              /\ result_text = <<>>
        /\ variant \in {"tui", "mac"} =>
              /\ error_msg # "" <=> parser.has_error
              /\ error_msg = parser.error
        /\ variant \in {"cli", "x11"} =>
              /\ error = 1 <=> parser.has_error
              /\ error = 0 <=> ~parser.has_error

\* the macOS evaluator has failed on 2+ after parsing the 2: it hands back a
\* message and the number 0
C4_Witness ==
    /\ pc = "done"
    /\ variant = "mac"
    /\ expression = <<"2", "+">>
    /\ parser.has_error
    /\ error_msg = "Unexpected end"
    /\ result = Zero

(***************************************************************************)
(* C5.  evaluate of the empty string and of a string of white space only   *)
(* returns an error, the one for an unexpected end of the input; it never  *)
(* returns 0 as a value.                                                   *)
(***************************************************************************)
C5_BlankInput ==
    (pc = "done" /\ \A i \in DOMAIN expression : isspace(expression[i])) =>
        /\ parser.has_error
        /\ parser.errs = <<IF variant = "cli" THEN "Unexpected end of expression"
                                               ELSE "Unexpected end">>
        /\ parser.error = parser.errs[1]
        /\ result = Zero
        /\ variant \in {"tui", "mac"} => error_msg = parser.error
        /\ variant \in {"cli", "x11"} => error = 1

\* a blank and a tab have been evaluated
C5_Witness ==
    /\ pc = "done"
    /\ expression = <<" ", "\t">>
    /\ variant = "tui"
    /\ error_msg = "Unexpected end"

(***************************************************************************)
(* C6.  When the top-level parse_expression ends without an error and the  *)
(* current token is not the end of the input, evaluate fails with "Extra   *)
(* tokens" and returns 0, not the value of the prefix it parsed.           *)
(***************************************************************************)
C6_ExtraTokens ==
    (pc = "done" /\ ~parser.top.has_error /\ parser.top.type # "EOF") =>
        /\ parser.has_error
        /\ parser.errs = <<IF variant = "cli"
                           THEN "Unexpected tokens after expression"
                           ELSE "Extra tokens">>
        /\ parser.error = parser.errs[1]
        /\ result = Zero
        /\ variant \in {"tui", "mac"} => error_msg = parser.error
        /\ variant \in {"cli", "x11"} => error = 1

\* 2+2) has been evaluated: the prefix 2+2 was parsed to 4, a ) is left
C6_Witness ==
    /\ pc = "done"
    /\ expression = <<"2", "+", "2", ")">>
    /\ variant = "tui"
    /\ parser.top = [has_error |-> FALSE, type |-> "RPAREN",
                     v |-> [k |-> "q", n |-> 4, d |-> 1, ex |-> TRUE]]
    /\ error_msg = "Extra tokens"
    /\ result = Zero

(***************************************************************************)
(* C7.  For every parenthesized primary whose inner expression was parsed: *)
(* when the token after the inner expression is not ), evaluate returns    *)
(* the error for a missing closing parenthesis and the number 0; when it   *)
(* is ), the primary consumes that one token and returns the value of the  *)
(* inner expression.                                                       *)
(***************************************************************************)
C7_ClosingParenthesis ==
    pc = "done" =>
        \A i \in DOMAIN parser.sites :
            LET s == parser.sites[i]
            IN  (s.kind = "paren" /\ s.ok) =>
                    IF s.cls # "RPAREN"
                    THEN /\ s.raised
                         /\ parser.has_error
                         /\ parser.error = (IF variant = "cli"
                                            THEN "Expected closing parenthesis"
                                            ELSE "Missing )")
                         /\ result = Zero
                    ELSE /\ ~s.raised
                         /\ i < Len(parser.sites)
                         /\ parser.sites[i + 1].kind = "closed"
                         /\ parser.sites[i + 1].at = s.at + 1
                         /\ parser.sites[i + 1].x = s.x

(***************************************************************************)
(* C8.  For every sqrt applied to a primary that was parsed and has the    *)
(* value x: when x < 0, evaluate fails with "Sqrt of negative" and returns *)
(* the number 0; when x = 0 or x > 0, the sqrt raises no error.            *)
(***************************************************************************)
C8_SqrtDomain ==
    pc = "done" =>
        \A i \in DOMAIN parser.sites :
            LET s == parser.sites[i]
            IN  (s.kind = "sqrt" /\ s.ok) =>
                    /\ s.cls = "neg" =>
                          /\ s.raised
                          /\ parser.has_error
                          /\ parser.error = (IF variant = "cli"
                                             THEN "Square root of negative number"
                                             ELSE "Sqrt of negative")
                          /\ result = Zero
                    /\ s.cls \in {"zero", "pos"} => ~s.raised

(***************************************************************************)
(* C9.  For every log applied to a primary that was parsed and has the     *)
(* value x: when x <= 0 (x = 0 included), evaluate fails with "Log of      *)
(* non-positive" and returns the number 0; when x > 0, the log raises no   *)
(* error.                                                                  *)
(***************************************************************************)
C9_LogDomain ==
    pc = "done" =>
        \A i \in DOMAIN parser.sites :
            LET s == parser.sites[i]
            IN  (s.kind = "log" /\ s.ok) =>
                    /\ s.cls \in {"neg", "zero"} =>
                          /\ s.raised
                          /\ parser.has_error
                          /\ parser.error = (IF variant = "cli"
                                             THEN "Logarithm of non-positive number"
                                             ELSE "Log of non-positive")
                          /\ result = Zero
                    /\ s.cls = "pos" => ~s.raised

\* s read as one operand of ^
Operand3(s) == parse_unary(parser_init(lexer_init(s, variant, "intended"), "pos"))

IsOperand3(s) ==
    /\ s # <<>>
    /\ ~Operand3(s).p.has_error
    /\ Operand3(s).p.lexer.current.type = "EOF"
    /\ Operand3(s).p.undecided = 0

(***************************************************************************)
(* C10.  ^ associates to the right: an input a^b^c, where a, b and c are   *)
(* operands of ^ (each a complete unary expression), is evaluated without  *)
(* error to a^(b^c), not to (a^b)^c.                                       *)
(***************************************************************************)
C10_RightAssociative ==
    pc = "done" =>
        \A i, j \in DOMAIN expression :
            LET a == SubSeq(expression, 1, i - 1)
                b == SubSeq(expression, i + 1, j - 1)
                c == SubSeq(expression, j + 1, Len(expression))
            IN  (/\ i < j
                 /\ expression[i] = "^"
                 /\ expression[j] = "^"
                 /\ IsOperand3(a) /\ IsOperand3(b) /\ IsOperand3(c)) =>
                    /\ ~parser.has_error
                    /\ error_msg = ""
                    /\ result = V_pow(Operand3(a).v,
                                      V_pow(Operand3(b).v, Operand3(c).v))

\* 2^3^2 has been evaluated to 512, where (2^3)^2 is 64
C10_Witness ==
    /\ pc = "done"
    /\ expression = <<"2", "^", "3", "^", "2">>
    /\ ~parser.has_error
    /\ result = [k |-> "q", n |-> 512, d |-> 1, ex |-> TRUE]
    /\ V_pow(V_pow(Mk(2, 1, TRUE), Mk(3, 1, TRUE)), Mk(2, 1, TRUE))
          = [k |-> "q", n |-> 64, d |-> 1, ex |-> TRUE]

(***************************************************************************)
(* C11.  When the lexer has produced an invalid token (type ERROR, for an  *)
(* unknown character or an unknown identifier), evaluate fails and the     *)
(* message it hands back is the text of that token, whether the token      *)
(* stands where an operand or where an operator is expected.  An ERROR     *)
(* token is never consumed, so it is the lexer's current token when        *)
(* evaluate ends.                                                          *)
(***************************************************************************)
C11_InvalidTokenMessage ==
    (pc = "done" /\ parser.lexer.current.type = "ERROR") =>
        /\ parser.has_error
        /\ parser.error = parser.lexer.current.text
        /\ variant \in {"tui", "mac"} => error_msg = parser.lexer.current.text

(***************************************************************************)
(* C12.  evaluate is deterministic and keeps nothing between calls: a call *)
(* with the string of an earlier call, whatever calls were made in         *)
(* between, ends with the outcome of the earlier call (the same number,    *)
(* the same message).                                                      *)
(***************************************************************************)
C12_SameOutcome ==
    (/\ pc = "done"
     /\ earlier # NoCall
     /\ earlier.variant = variant
     /\ earlier.expression = expression) =>
        /\ result = earlier.result
        /\ error_msg = earlier.error_msg
        /\ error = earlier.error

(***************************************************************************)
(* C13.  A call of evaluate does no input or output and changes nothing    *)
(* but its own Lexer and Parser and its out-parameter: in every front end, *)
(* whether the call succeeds or fails, the output stream and the global    *)
(* variables are after the call what they were before it.                  *)
(***************************************************************************)
C13_NoEffect ==
    [][(pc = "ready" /\ pc' = "done") =>
            /\ stdout' = stdout
            /\ result_text' = result_text]_vars

\* a fresh parser of front end v on the string s
ParserOf(s, v) == parser_init(lexer_init(s, v, "intended"), "pos")

\* s is wholly one result of F: parsed without error up to its end
Whole(s, v, F(_)) ==
    /\ s # <<>>
    /\ ~F(ParserOf(s, v)).p.has_error
    /\ F(ParserOf(s, v)).p.lexer.current.type = "EOF"

\* the token types that start an implicit multiplicand
Multiplicands ==
    {"NUMBER", "PI", "E", "LPAREN", "SIN", "COS", "TAN", "SQRT", "LOG", "EXP", "ABS"}

\* the last character of a and the first of b belong to different tokens
Apart(a, b) ==
    /\ ~(isalpha(a[Len(a)]) /\ isalpha(b[1]))
    /\ ~((isdigit(a[Len(a)]) \/ a[Len(a)] = ".") /\ (isdigit(b[1]) \/ b[1] = "."))

(***************************************************************************)
(* C14.  In the macOS evaluator a factor followed directly by a power-     *)
(* expression that starts with a number, pi, e, ( or a function name is    *)
(* multiplied by it, again and again: an input a b, with a a complete      *)
(* factor and b such a power-expression, is evaluated without error to     *)
(* a * b (2pi to 2*pi, 2(3+4) to 14, 2sin(0) to 0).                        *)
(***************************************************************************)
C14_ImplicitMultiplication ==
    (pc = "done" /\ variant = "mac") =>
        \A i \in 1..(Len(expression) - 1) :
            LET a == SubSeq(expression, 1, i)
                b == SubSeq(expression, i + 1, Len(expression))
            IN  (/\ Apart(a, b)
                 /\ Whole(a, "mac", parse_factor)
                 /\ Whole(b, "mac", parse_power)
                 /\ ParserOf(b, "mac").lexer.current.type \in Multiplicands) =>
                    /\ ~parser.has_error
                    /\ error_msg = ""
                    /\ result = V_mul(parse_factor(ParserOf(a, "mac")).v,
                                      parse_power(ParserOf(b, "mac")).v)

\* 2(3+4) has been evaluated to 14
C14_Witness ==
    /\ pc = "done"
    /\ variant = "mac"
    /\ expression = <<"2", "(", "3", "+", "4", ")">>
    /\ ~parser.has_error
    /\ error_msg = ""
    /\ result = [k |-> "q", n |-> 14, d |-> 1, ex |-> TRUE]

RECURSIVE TypesFrom(_)
\* the type of the current token of the lexer and of every token after it, up
\* to the end of the input
TypesFrom(lexer) ==
    IF lexer.current.type = "EOF" THEN <<>>
    ELSE <<lexer.current.type>> \o TypesFrom(lexer_advance(lexer))

\* the types of the tokens of the input of a lexer that has read nothing yet
TokenTypes(lexer) == TypesFrom(lexer_advance(lexer))

\* two neighbours among the types: a token that ends an operand directly
\* followed by one that starts an operand
AdjacentIn(types) ==
    \E i \in 1..(Len(types) - 1) :
        /\ types[i] \in {"NUMBER", "PI", "E", "RPAREN"}
        /\ types[i + 1] \in Multiplicands

\* s holds two operands with no operator between them
Adjacent(s, v) == AdjacentIn(TokenTypes(lexer_init(s, v, "intended")))

\* the messages of the arithmetic and domain errors
DomainMessages(p) ==
    {"Division by zero", "Modulo by zero", Msg(p, "sqrt"), Msg(p, "log")}

(***************************************************************************)
(* C15.  In the TUI, CLI and X11 evaluators, where parse_factor is         *)
(* parse_power and nothing more, an input with two operands next to each   *)
(* other and no operator between them (2pi, 2(3+4), 2 3) makes evaluate    *)
(* return a syntax error, never a value: the parser has an error, the      *)
(* number returned is 0, and unless an arithmetic or domain error was met  *)
(* before the second operand (2/0 3), the error returned is not one of the *)
(* arithmetic and domain errors.                                           *)
(***************************************************************************)
C15_AdjacentOperands ==
    (/\ pc = "done"
     /\ variant \in {"tui", "cli", "x11"}
     /\ Adjacent(expression, variant)) =>
        /\ parser.has_error
        /\ result = Zero
        /\ parser.errs[1] \notin DomainMessages(parser) =>
               parser.error \notin DomainMessages(parser)

\* what holds of adjacent operands in these evaluators: evaluate fails and
\* returns 0, and when the expression before the second operand was parsed
\* without error the error is the one for tokens left after the expression
AdjacentOperandsFail ==
    (/\ pc = "done"
     /\ variant \in {"tui", "cli", "x11"}
     /\ Adjacent(expression, variant)) =>
        /\ parser.has_error
        /\ result = Zero
        /\ variant = "tui" => error_msg = parser.error /\ error_msg # ""
        /\ variant \in {"cli", "x11"} => error = 1
        /\ ~parser.top.has_error => parser.error = Msg(parser, "extra")

\* the function names, as the characters of the input
FunctionNames ==
    {<<"s", "i", "n">>, <<"c", "o", "s">>, <<"t", "a", "n">>, <<"s", "q", "r", "t">>,
     <<"l", "o", "g">>, <<"e", "x", "p">>, <<"a", "b", "s">>}

\* the function called name applied to v
FunctionValue(name, v) ==
    CASE name = <<"s", "i", "n">> -> V_sin(v)
      [] name = <<"c", "o", "s">> -> V_cos(v)
      [] name = <<"t", "a", "n">> -> V_tan(v)
      [] name = <<"s", "q", "r", "t">> -> V_sqrt(v)
      [] name = <<"l", "o", "g">> -> V_log(v)
      [] name = <<"e", "x", "p">> -> V_exp(v)
      [] name = <<"a", "b", "s">> -> V_fabs(v)

\* v is in the domain of the function called name
InDomain(name, v) ==
    /\ name = <<"s", "q", "r", "t">> => Sign(v) \in {"zero", "pos"}
    /\ name = <<"l", "o", "g">> => Sign(v) = "pos"

\* the token types that start a primary
Primaries == {"NUMBER", "PI", "E", "LPAREN"}

\* the error of parse_primary on a valid token that starts no primary
NotPrimary(p, token) ==
    IF token.type = "EOF" THEN Msg(p, "end") ELSE Msg(p, "token") \o token.text

\* the input f p ^ q, with f the function called name and p ^ q split in
\* rest at j, has been evaluated to (f(p))^q without error
AppliedThenRaised(name, rest, j) ==
    (/\ rest[j] = "^"
     /\ Whole(SubSeq(rest, 1, j - 1), variant, parse_primary)
     /\ Whole(SubSeq(rest, j + 1, Len(rest)), variant, parse_power)
     /\ InDomain(name, parse_primary(ParserOf(SubSeq(rest, 1, j - 1), variant)).v)
     /\ parser.undecided = 0) =>
        /\ ~parser.has_error
        /\ result = V_pow(FunctionValue(name,
                             parse_primary(ParserOf(SubSeq(rest, 1, j - 1), variant)).v),
                          parse_power(ParserOf(SubSeq(rest, j + 1, Len(rest)), variant)).v)

(***************************************************************************)
(* C16.  A function name takes the one primary that follows it as its      *)
(* argument.  For an input f p ^ q, with f a function name, p a complete   *)
(* primary in the domain of f and q a complete power-expression, evaluate  *)
(* returns (f(p))^q without error, not f(p^q).  For an input that is a     *)
(* function name followed by a valid token that starts no primary (an      *)
(* operator, a function name, ')', the end of the input), evaluate fails,  *)
(* returns 0,                                                              *)
(* and the error is the syntax error of parse_primary for that token.      *)
(***************************************************************************)
C16_FunctionTakesPrimary ==
    pc = "done" =>
        \A k \in 1..Len(expression) :
            LET name == SubSeq(expression, 1, k)
                rest == SubSeq(expression, k + 1, Len(expression))
            IN  (/\ name \in FunctionNames
                 /\ rest # <<>> => ~isalpha(rest[1])) =>
                    /\ ParserOf(rest, variant).lexer.current.type
                           \notin Primaries \cup {"ERROR"} =>
                          /\ parser.has_error
                          /\ result = Zero
                          /\ parser.error
                                = NotPrimary(parser, ParserOf(rest, variant).lexer.current)
                    /\ \A j \in 1..Len(rest) : AppliedThenRaised(name, rest, j)

\* what holds of a function name: f p ^ q is (f(p))^q, and a function name
\* followed by a token that starts no primary makes evaluate fail and return
\* 0, the syntax error of parse_primary being the first error recorded
FunctionBindsPrimary ==
    pc = "done" =>
        \A k \in 1..Len(expression) :
            LET name == SubSeq(expression, 1, k)
                rest == SubSeq(expression, k + 1, Len(expression))
            IN  (/\ name \in FunctionNames
                 /\ rest # <<>> => ~isalpha(rest[1])) =>
                    /\ ParserOf(rest, variant).lexer.current.type
                           \notin Primaries \cup {"ERROR"} =>
                          /\ parser.has_error
                          /\ result = Zero
                          /\ parser.errs[1]
                                = NotPrimary(parser, ParserOf(rest, variant).lexer.current)
                          /\ name # <<"l", "o", "g">> => parser.error = parser.errs[1]
                    /\ \A j \in 1..Len(rest) : AppliedThenRaised(name, rest, j)

\* exp 0^0 has been evaluated to exp(0)^0 = 1, where exp(0^0) is e
FunctionBindsPrimary_Reached ==
    /\ pc = "done"
    /\ expression = <<"e", "x", "p", "0", "^", "0">>
    /\ ~parser.has_error
    /\ result = One
    /\ V_exp(V_pow(Zero, Zero)) # One

\* the nine names of the language and their token kinds
KindOf(word) ==
    CASE word = <<"s", "i", "n">> -> "SIN"
      [] word = <<"c", "o", "s">> -> "COS"
      [] word = <<"t", "a", "n">> -> "TAN"
      [] word = <<"s", "q", "r", "t">> -> "SQRT"
      [] word = <<"l", "o", "g">> -> "LOG"
      [] word = <<"e", "x", "p">> -> "EXP"
      [] word = <<"a", "b", "s">> -> "ABS"
      [] word = <<"p", "i">> -> "PI"
      [] word = <<"e">> -> "E"
      [] OTHER -> "none"

\* the first k characters of s are the maximal run of letters s starts with
LetterRun(s, k) ==
    /\ \A i \in 1..k : isalpha(s[i])
    /\ k < Len(s) => ~isalpha(s[k + 1])

\* the first token of the input evaluated, as the lexer of the call read it
FirstToken == lexer_advance(lexer_init(expression, variant, parser.lexer.ub)).current

(***************************************************************************)
(* C17.  The lexer reads the maximal run of letters an input starts with   *)
(* as one identifier.  When the run is exactly one of sin, cos, tan, sqrt, *)
(* log, exp, abs, pi, e the token is of that kind; for every other run     *)
(* (Sin, pie, sinpi, x) the token is invalid, its text is "Unknown: "      *)
(* followed by the run, and evaluate fails with that text as its error.    *)
(***************************************************************************)
C17_Identifiers ==
    pc = "done" =>
        \A k \in 1..Len(expression) :
            LetterRun(expression, k) =>
                IF KindOf(SubSeq(expression, 1, k)) # "none"
                THEN /\ FirstToken.type = KindOf(SubSeq(expression, 1, k))
                     /\ FirstToken.text = Text(expression, 0, k)
                ELSE /\ FirstToken.type = "ERROR"
                     /\ FirstToken.text = UnknownPrefix(variant) \o Text(expression, 0, k)
                     /\ parser.has_error
                     /\ parser.error = FirstToken.text
                     /\ result = Zero

\* what holds of identifiers: the kinds of the nine names, an invalid token
\* and a failed evaluation for every other run of letters, and the text
\* "Unknown: " followed by the run when sprintf formats it as written
IdentifiersLexed ==
    pc = "done" =>
        \A k \in 1..Len(expression) :
            LetterRun(expression, k) =>
                IF KindOf(SubSeq(expression, 1, k)) # "none"
                THEN /\ FirstToken.type = KindOf(SubSeq(expression, 1, k))
                     /\ FirstToken.text = Text(expression, 0, k)
                ELSE /\ FirstToken.type = "ERROR"
                     /\ parser.lexer.ub = "intended" =>
                           FirstToken.text
                              = UnknownPrefix(variant) \o Text(expression, 0, k)
                     /\ parser.has_error
                     /\ parser.error = FirstToken.text
                     /\ result = Zero

\* sinpi has been read as one unknown identifier, not as sin and pi
IdentifiersLexed_Reached ==
    /\ pc = "done"
    /\ variant = "tui"
    /\ expression = <<"s", "i", "n", "p", "i">>
    /\ parser.lexer.ub = "intended"
    /\ error_msg = "Unknown: sinpi"

RECURSIVE TokensFrom(_)
\* the current token of the lexer and every token after it, up to the end
\* of the input
TokensFrom(lexer) ==
    IF lexer.current.type = "EOF" THEN <<>>
    ELSE <<lexer.current>> \o TokensFrom(lexer_advance(lexer))

\* the tokens of the string s
Tokens(s, v, ub) == TokensFrom(lexer_advance(lexer_init(s, v, ub)))

RECURSIVE Inside(_, _)
\* the place after i characters of the input lies inside the token of t,
\* which starts at start, or inside one of the tokens after it
Within(t, start, i) ==
    IF t[1].type = "EOF" THEN FALSE
    ELSE (start < i /\ i < t[2].position) \/ Inside(t[2], i)

\* the place after i characters of the input lies inside one of the tokens
\* the lexer reads from its position on
Inside(lexer, i) ==
    Within(lexer_next_token(lexer), lexer_skip_whitespace(lexer).position, i)

\* s with the characters w put in after its first i characters
Inserted(s, i, w) == SubSeq(s, 1, i) \o w \o SubSeq(s, i + 1, Len(s))

\* the runs of whitespace put in
Blanks == {<<" ">>, <<"\t", "\n">>}

\* the outcome r is the outcome of the call of the state
SameOutcome(r) ==
    /\ r.value = result
    /\ r.error_msg = error_msg
    /\ r.error = error
    /\ r.parser.error = parser.error

\* the string s has the tokens given and evaluate ends on it as the call of
\* the state has
Unchanged(s, tokens) ==
    /\ Tokens(s, variant, parser.lexer.ub) = tokens
    /\ SameOutcome(evaluate(s, variant, parser.oracle, parser.lexer.ub))

\* whitespace put in at any place of the input of the state that is not
\* inside one of the tokens given
Spaced(tokens) ==
    \A i \in 0..Len(expression) :
        ~Inside(lexer_init(expression, variant, "intended"), i) =>
            \A w \in Blanks : Unchanged(Inserted(expression, i, w), tokens)

(***************************************************************************)
(* C18.  Whitespace between tokens is insignificant: whitespace put in     *)
(* before the first token of an input, between two neighbouring tokens or  *)
(* after the last token leaves the sequence of tokens and the outcome of   *)
(* evaluate, value or error, as they are.                                  *)
(***************************************************************************)
C18_WhitespaceInsignificant ==
    pc = "done" => Spaced(Tokens(expression, variant, parser.lexer.ub))

\* 2+.2 has been evaluated, and with whitespace around its + the tokens are
\* the three they were; inside .2 the whitespace would split the token
C18_Witness ==
    /\ pc = "done"
    /\ expression = <<"2", "+", ".", "2">>
    /\ result = Mk(11, 5, FALSE)
    /\ ~Inside(lexer_init(expression, variant, "intended"), 1)
    /\ ~Inside(lexer_init(expression, variant, "intended"), 2)
    /\ Inside(lexer_init(expression, variant, "intended"), 3)
    /\ Len(Tokens(<<"2", " ", "+", "\t", ".", "2">>, variant, "intended")) = 3
    /\ Len(Tokens(<<"2", "+", ".", " ", "2">>, variant, "intended")) = 4

(***************************************************************************)
(* C19.  In the terminal UI the Escape key clears the edit line: once main *)
(* has read the byte 27 of the key, whatever key is pressed next, the      *)
(* handling of Escape ends with current_expr empty and cursor_pos 0.       *)
(***************************************************************************)
C19_EscapeClears ==
    [][main_pc = "esc" => (current_expr' = <<>> /\ cursor_pos' = 0)]_vars

\* what holds of Escape: main waits for one more byte; the byte of the key
\* pressed next is taken for the second byte of a sequence and the key does
\* nothing, the edit line stays as it is; only at the end of the input is
\* the line cleared, and main then ends
EscapeSwallowsKey ==
    [][main_pc = "esc" =>
          IF main_pc' = "exit"
          THEN current_expr' = <<>> /\ cursor_pos' = 0 /\ history' = history
          ELSE /\ main_pc' = "read"
               /\ UNCHANGED <<current_expr, cursor_pos, history, submitted>>]_vars

Min(x, y) == IF x < y THEN x ELSE y

\* the entries the history can hold of the expressions submitted
Held == Min(Len(submitted), MAX_HISTORY)

\* the entry the arrow keys have led to: Up goes one entry back and stops
\* at the oldest, Down comes one entry forward; 0 is the empty line after
\* the newest entry
Entry == Max(Min(ups, Held) - downs, 0)

(***************************************************************************)
(* C20.  In the terminal UI the arrow keys walk through the history.       *)
(* After n >= 1 expressions were submitted, Up pressed k times loads the   *)
(* k-th most recent of them (of the 10 most recent) into the edit line,    *)
(* with the cursor at its end; Up at the oldest entry changes nothing;     *)
(* Down comes back one entry toward the newest, and Down at the newest     *)
(* entry empties the line and sets history.current to history.count.       *)
(***************************************************************************)
C20_HistoryNavigation ==
    (main_pc = "read" /\ ups >= 0 /\ ups + downs >= 1) =>
        IF Entry >= 1
        THEN /\ current_expr = submitted[Len(submitted) - Entry + 1]
             /\ cursor_pos = Len(current_expr)
             /\ history.current = history.count - Entry
        ELSE /\ current_expr = <<>>
             /\ cursor_pos = 0
             /\ history.current = history.count

\* eleven expressions were submitted, the second of them 22; Up pressed
\* ten times, and once more, has loaded it, the oldest entry of the history
C20_Witness ==
    /\ main_pc = "read"
    /\ Len(submitted) = MAX_HISTORY + 1
    /\ submitted[2] = <<"2", "2">>
    /\ ups = MAX_HISTORY + 1
    /\ downs = 0
    /\ current_expr = <<"2", "2">>
    /\ cursor_pos = 2
    /\ history.current = 0
    /\ history.count = MAX_HISTORY

\* Down at the newest entry has emptied the line
C20_DownAtNewest ==
    /\ main_pc = "read"
    /\ ups = 2
    /\ downs = 2
    /\ Len(submitted) >= 2
    /\ current_expr = <<>>
    /\ history.current = history.count

(***************************************************************************)
(* C21.  Once an error has been recorded in an evaluation, nothing later   *)
(* in that evaluation acts on the lexer: when evaluate returns, the        *)
(* position and the current token are those the lexer had when the first   *)
(* error was recorded, no token has been consumed since, and has_error is  *)
(* still set.                                                              *)
(***************************************************************************)
C21_LexerKeptAfterError ==
    (pc = "done" /\ parser.errs # <<>>) =>
        /\ parser.has_error
        /\ parser.lexer.position = parser.first.position
        /\ parser.lexer.current = parser.first.current
        /\ parser.advances = parser.first.advances

\* what holds after the first error: has_error stays set, and the lexer is
\* advanced only by parse_primary over a ')' that was the current token
\* when the error was recorded, once for each '(' that is still open
ClosingConsumedAfterError ==
    (pc = "done" /\ parser.errs # <<>>) =>
        /\ parser.has_error
        /\ parser.first.advances <= parser.advances
        /\ parser.first.position <= parser.lexer.position
        /\ parser.advances # parser.first.advances =>
              /\ parser.first.current.type = "RPAREN"
              /\ parser.advances - parser.first.advances <= Opens(expression)

RECURSIVE Forward(_)
\* the call of lexer_next_token that read t from lexer, and every call
\* after it up to the end of the input: the cursor stays within the input,
\* does not move back, and the character after a '.' at the cursor, the one
\* character read ahead of it, is within the input or is its terminator
Stepped(lexer, skipped, t) ==
    /\ 0 <= lexer.position
    /\ lexer.position <= skipped.position
    /\ skipped.position <= t[2].position
    /\ t[2].position <= Len(lexer.input)
    /\ CharAt(skipped.input, skipped.position) = "." =>
           skipped.position + 1 <= Len(lexer.input)
    /\ IF t[1].type = "EOF"
       THEN lexer_next_token(t[2])[2].position = t[2].position
       ELSE Forward(t[2])

\* every call of lexer_next_token from lexer on
Forward(lexer) ==
    Stepped(lexer, lexer_skip_whitespace(lexer), lexer_next_token(lexer))

(***************************************************************************)
(* C22.  During one evaluation the cursor of the lexer never moves back    *)
(* and never passes the terminator of the input: the position is between   *)
(* 0 and the length of the input, every call of lexer_next_token leaves it *)
(* where it was or further on, and the only character read ahead of the    *)
(* cursor is the one after a '.'.                                          *)
(***************************************************************************)
C22_CursorForward ==
    pc = "done" =>
        /\ Forward(lexer_init(expression, variant, parser.lexer.ub))
        /\ parser.lexer.position \in 0..Len(expression)

\* " .2 " has been evaluated: the cursor went over the whitespace and the
\* number to the end of the input and stayed there
C22_Witness ==
    /\ pc = "done"
    /\ expression = <<" ", ".", "2", " ">>
    /\ result = Mk(1, 5, FALSE)
    /\ parser.lexer.position = Len(expression)
    /\ parser.lexer.current.type = "EOF"

\* in the characters start..end-1 of the input every '.' has a digit after
\* it that is one of these characters too
DotsFollowed(input, start, end) ==
    \A i \in start..(end - 1) :
        CharAt(input, i) = "." => (i + 1 < end /\ isdigit(CharAt(input, i + 1)))

\* the characters start..end-1 of the input hold a digit and at most one '.'
DigitsAndDot(input, start, end) ==
    /\ \A i \in start..(end - 1) :
          isdigit(CharAt(input, i)) \/ CharAt(input, i) = "."
    /\ \E i \in start..(end - 1) : isdigit(CharAt(input, i))
    /\ Cardinality({i \in start..(end - 1) : CharAt(input, i) = "."}) <= 1

RECURSIVE SpansFrom(_)
\* the token t, read at the position of skipped, with the place of its
\* first character and the place after its last, and every token after it
SpansOf(skipped, t) ==
    IF t[1].type = "EOF" THEN <<>>
    ELSE <<[start |-> skipped.position, end |-> t[2].position, token |-> t[1]]>>
         \o SpansFrom(t[2])

SpansFrom(lexer) ==
    SpansOf(lexer_skip_whitespace(lexer), lexer_next_token(lexer))

\* the tokens of the input of the state
Spans == SpansFrom(lexer_init(expression, variant, "intended"))

\* the Number tokens among them
Numbers == SelectSeq(Spans, LAMBDA t : t.token.type = "NUMBER")

(***************************************************************************)
(* C23.  A Number token is read only for digits, optionally followed by    *)
(* one '.' and at least one digit: a '.' that is part of a Number token    *)
(* has a digit right after it in the same token, so 5. is not read as one  *)
(* Number token.                                                           *)
(***************************************************************************)
C23_NumberForm ==
    pc = "done" =>
        \A k \in DOMAIN Numbers :
            DotsFollowed(expression, Numbers[k].start, Numbers[k].end)

\* what lexer_read_number does keep to: a Number token is made of digits
\* and at most one '.', and holds a digit
NumberDigitsAndDot ==
    pc = "done" =>
        \A k \in DOMAIN Numbers :
            DigitsAndDot(expression, Numbers[k].start, Numbers[k].end)

\* 2. has been read as one Number token, and evaluated to 2
NumberDigitsAndDot_Reached ==
    /\ pc = "done"
    /\ expression = <<"2", ".">>
    /\ ~parser.has_error
    /\ result = Mk(2, 1, TRUE)
    /\ parser.advances = 1

\* the number of '.' among the characters start..end-1 of the input
Dots(input, start, end) ==
    Cardinality({i \in start..(end - 1) : CharAt(input, i) = "."})

\* the token t starts with a '.': it is a Number when a digit follows, and
\* otherwise the invalid token of the '.' alone, on which evaluate fails
DotFirst(t) ==
    IF isdigit(CharAt(expression, t.start + 1))
    THEN t.token.type = "NUMBER" /\ t.end >= t.start + 2
    ELSE /\ t.token.type = "ERROR"
         /\ t.token.text = "Unknown: ."
         /\ t.end = t.start + 1
         /\ parser.has_error
         /\ error_msg = parser.error
         /\ error_msg # ""
         /\ result = Zero

(***************************************************************************)
(* C24.  A Number token holds at most one '.': a second '.' ends the token *)
(* (1.2.3 is read as 1.2 and .3).  A '.' at the start of a token starts a  *)
(* Number only when the next character is a digit; otherwise the '.' is an *)
(* invalid token "Unknown: ." and the evaluation fails.                    *)
(***************************************************************************)
C24_OneDot ==
    pc = "done" =>
        \A k \in DOMAIN Spans :
            /\ Spans[k].token.type = "NUMBER" =>
                  /\ Dots(expression, Spans[k].start, Spans[k].end) <= 1
                  /\ CharAt(expression, Spans[k].end) # "." \/
                        Dots(expression, Spans[k].start, Spans[k].end) = 1
            /\ CharAt(expression, Spans[k].start) = "." => DotFirst(Spans[k])

\* 2..2 has been read as the two Numbers 2. and .2, and .. as two invalid
\* tokens
C24_Witness ==
    /\ pc = "done"
    /\ expression = <<"2", ".", ".", "2">>
    /\ Len(Spans) = 2
    /\ Spans[1].end = 2
    /\ Spans[2].token.type = "NUMBER"
    /\ Spans[2].token.value = Mk(1, 5, FALSE)
    /\ Len(SpansFrom(lexer_init(<<".", ".">>, variant, "intended"))) = 2

\* the string s is an integer literal of one digit with any signs before it
IsSigned(s) ==
    /\ s # <<>>
    /\ isdigit(s[Len(s)])
    /\ \A k \in 1..(Len(s) - 1) : s[k] \in {"+", "-"}

RECURSIVE Signed(_)
\* its value: the signs applied to the literal from the right to the left
Signed(s) ==
    IF Len(s) = 1 THEN Mk(Decimal(s), 1, TRUE)
    ELSE IF Head(s) = "-" THEN V_neg(Signed(Tail(s)))
    ELSE Signed(Tail(s))

RECURSIVE Advancing(_)
\* the call of lexer_next_token that read t from lexer returned the end of
\* the input or moved the cursor on, and so did every call after it
Advanced(lexer, t) ==
    t[1].type = "EOF" \/ (t[2].position > lexer.position /\ Advancing(t[2]))

Advancing(lexer) == Advanced(lexer, lexer_next_token(lexer))

\* the work of a call of evaluate that has ended is bounded by its input:
\* the lexer moved on with every token, no more tokens were consumed than
\* the input holds, every turn of a while loop consumed a token, and every
\* call of a parse function is one of the six at the start, one of at most
\* six after a token was consumed, or one of the three of a turn of the
\* implicit multiplication
EvaluateBounded ==
    /\ Advancing(lexer_init(expression, variant, parser.lexer.ub))
    /\ parser.advances <= Len(Spans)
    /\ Len(Spans) <= Len(expression)
    /\ parser.turns <= parser.advances
    /\ parser.calls <= 6 * (parser.advances + 1) + 3 * parser.turns

(***************************************************************************)
(* C26.  evaluate terminates on every finite input: a call that has been   *)
(* made has an outcome, and it ends after a number of steps its input      *)
(* bounds, because every call of lexer_next_token returns the end of the   *)
(* input or moves the cursor on by at least one character, every turn of   *)
(* the loops of parse_expression, parse_term and the macOS parse_factor    *)
(* consumes at least one token or leaves the loop, and every recursive     *)
(* call comes after a token was consumed or ends in parse_primary.         *)
(***************************************************************************)
C26_Terminates ==
    /\ pc = "ready" => Outcomes(expression, variant) # {}
    /\ pc = "done" => EvaluateBounded

\* the macOS evaluate has ended on 2/2pi: four tokens consumed, one turn of
\* the loop of parse_term and one of the loop of parse_factor
C26_Witness ==
    /\ pc = "done"
    /\ variant = "mac"
    /\ expression = <<"2", "/", "2", "p", "i">>
    /\ ~parser.has_error
    /\ parser.advances = 4
    /\ parser.turns = 2

\* parse_power and parse_unary of the macOS evaluator on the string s alone
PowerOf(s) == parse_power(parser_init(lexer_init(s, "mac", "intended"), "pos"))

UnaryOf(s) == parse_unary(parser_init(lexer_init(s, "mac", "intended"), "pos"))

\* r is what a parse function returns that has parsed the whole of a string
Complete(r) == ~r.p.has_error /\ r.p.lexer.current.type = "EOF" /\ r.p.advances > 0

\* the string c written after the string b is read as the tokens of b and
\* then the tokens of c, and c starts with a token that the macOS
\* parse_factor takes for an implicit multiplicand
Follows(b, c) ==
    /\ Tokens(b \o c, "mac", "intended")
          = Tokens(b, "mac", "intended") \o Tokens(c, "mac", "intended")
    /\ Tokens(c, "mac", "intended") # <<>>
    /\ Tokens(c, "mac", "intended")[1].type \in
          {"PI", "E", "LPAREN", "NUMBER"} \cup Functions

\* a op b c, with a, b and c as parse_power returned them: the right
\* operand of op is the product of b and c
ProductIsOperand(op, a, b, c) ==
    (Complete(a) /\ Complete(b) /\ Complete(c)) =>
        /\ ~parser.has_error
        /\ result = (CASE op = "*" -> V_mul(a.v, V_mul(b.v, c.v))
                        [] op = "/" -> V_div(a.v, V_mul(b.v, c.v))
                        [] op = "%" -> V_fmod(a.v, V_mul(b.v, c.v)))

\* a ^ b c, with a as parse_unary and b and c as parse_power returned them:
\* c multiplies the power
PowerIsMultiplied(a, b, c) ==
    (Complete(a) /\ Complete(b) /\ Complete(c)) =>
        /\ ~parser.has_error
        /\ result = V_mul(V_pow(a.v, b.v), c.v)

\* the input of the state cut into a, the operator at i, b up to j, and c
Cut(i, j) ==
    /\ expression[i] \in {"*", "/", "%"} /\ Follows(SubSeq(expression, i + 1, j),
                                                   SubSeq(expression, j + 1, Len(expression)))
          => ProductIsOperand(expression[i],
                              PowerOf(SubSeq(expression, 1, i - 1)),
                              PowerOf(SubSeq(expression, i + 1, j)),
                              PowerOf(SubSeq(expression, j + 1, Len(expression))))
    /\ expression[i] = "^" /\ Follows(SubSeq(expression, i + 1, j),
                                      SubSeq(expression, j + 1, Len(expression)))
          => PowerIsMultiplied(UnaryOf(SubSeq(expression, 1, i - 1)),
                               PowerOf(SubSeq(expression, i + 1, j)),
                               PowerOf(SubSeq(expression, j + 1, Len(expression))))

(***************************************************************************)
(* C27.  In the macOS evaluator implicit multiplication binds tighter than *)
(* the explicit * / %: the right operand of an explicit / or % is the      *)
(* whole implicit product after it, so a / b c is a / (b*c) and not        *)
(* (a/b)*c (1/2pi is 1/(2*pi)); ^ binds tighter than implicit              *)
(* multiplication (2^3pi is (2^3)*pi).                                     *)
(***************************************************************************)
C27_ImplicitBindsTighter ==
    (pc = "done" /\ variant = "mac") =>
        \A i, j \in DOMAIN expression :
            (1 < i /\ i < j /\ j < Len(expression)) => Cut(i, j)

\* 3/2(3) has been evaluated to 3/(2*3) = 1/2, where (3/2)*3 is 9/2
C27_Witness ==
    /\ pc = "done"
    /\ variant = "mac"
    /\ expression = <<"3", "/", "2", "(", "3", ")">>
    /\ ~parser.has_error
    /\ result = Mk(1, 2, TRUE)
    /\ V_mul(V_div(Mk(3, 1, TRUE), Mk(2, 1, TRUE)), Mk(3, 1, TRUE)) = Mk(9, 2, TRUE)

\* the longest text a Token holds: char text[MAX_TOKEN_LEN] with its
\* terminator
Fits(text) == Len(text) <= MAX_TOKEN_LEN - 1

AllFit(tokens) == \A k \in DOMAIN tokens : Fits(tokens[k].token.text)

(***************************************************************************)
(* C28.  For every input of at most MAX_EXPR_LEN - 1 characters, every     *)
(* string the lexer writes into the text of a Token, the "Unknown: ..."    *)
(* diagnostic of an unknown identifier included, has at most               *)
(* MAX_TOKEN_LEN - 1 characters, so that no write goes past the buffer.    *)
(***************************************************************************)
C28_TokenTextFits ==
    (pc = "done" /\ Len(expression) <= MAX_EXPR_LEN - 1) => AllFit(Spans)

\* what the lexer does keep to: the characters copied from the input fit,
\* so the text of a number or of a name fits, and the diagnostic is longer
\* than the text it is made of by its prefix
CopiedFits(t) ==
    /\ Copied(t.start, t.end) <= MAX_TOKEN_LEN - 1
    /\ t.token.type # "ERROR" => Fits(t.token.text)
    /\ t.token.type = "ERROR" =>
          Len(t.token.text) = Len(UnknownPrefix(variant)) + Copied(t.start, t.end)

AllCopiedFit(tokens) == \A k \in DOMAIN tokens : CopiedFits(tokens[k])

CopiedTextFits ==
    (pc = "done" /\ Len(expression) <= MAX_EXPR_LEN - 1) => AllCopiedFit(Spans)

\* an identifier of MAX_TOKEN_LEN - 9 letters has been read in the TUI: with
\* "Unknown: " before it the text has MAX_TOKEN_LEN characters
CopiedTextFits_Reached ==
    /\ pc = "done"
    /\ variant = "tui"
    /\ Len(expression) = MAX_TOKEN_LEN - 9
    /\ parser.has_error
    /\ parser.lexer.current.type = "ERROR"
    /\ Len(parser.lexer.current.text) = MAX_TOKEN_LEN

\* the history holds between 0 and MAX_HISTORY entries and history.current
\* is the index of one of them or the one past the newest
HistoryBounded ==
    /\ 0 <= history.current
    /\ history.current <= history.count
    /\ history.count <= MAX_HISTORY

\* Enter is pressed on a line that is not empty, main waiting at the top of
\* its loop
EnterOnExpression == main_pc = "read" /\ Len(current_expr) > 0 /\ Enter

\* the entry i of the history h
EntryOf(h, i) ==
    [expression |-> h.expressions[i], result |-> h.results[i], error |-> h.errors[i]]

\* the step appends one entry, the edit line, to the history: the entries
\* held go on in their order, without the oldest one if the history was
\* full, the new one is the last, and history.current is history.count
AppendedOne ==
    /\ history'.count = Min(history.count + 1, MAX_HISTORY)
    /\ history'.current = history'.count
    /\ history'.expressions[history'.count - 1] = current_expr
    /\ history'.errors[history'.count - 1] \in {0, 1}
    /\ \A i \in 0..(history'.count - 2) :
          EntryOf(history', i) =
              EntryOf(history, IF history.count < MAX_HISTORY THEN i ELSE i + 1)
    /\ submitted' = Append(submitted, current_expr)

(***************************************************************************)
(* C29.  The history of the terminal UI is a bounded FIFO: after any keys  *)
(* 0 <= history.current <= history.count <= MAX_HISTORY, and every Enter   *)
(* on an expression that is not empty appends exactly one entry, whether   *)
(* the evaluation succeeded or failed; when the history holds MAX_HISTORY  *)
(* entries the oldest is dropped, the other nine keep their order, the new *)
(* one is last and history.current is history.count.                       *)
(***************************************************************************)
C29_BoundedFifo ==
    [][/\ HistoryBounded /\ HistoryBounded'
       /\ EnterOnExpression => AppendedOne]_vars

\* what holds of every Enter that the program survives
HistoryFifo ==
    [][/\ HistoryBounded /\ HistoryBounded'
       /\ (EnterOnExpression /\ main_pc' # "abort") => AppendedOne]_vars

\* eleven expressions were submitted, the second of them + and so a failed
\* evaluation: the first was dropped, + is the oldest entry held and marked
\* as an error, and the eleventh is the newest
HistoryFifo_Reached ==
    /\ Len(submitted) = MAX_HISTORY + 1
    /\ submitted[2] = <<"+">>
    /\ history.count = MAX_HISTORY
    /\ history.current = MAX_HISTORY
    /\ history.expressions[0] = <<"+">>
    /\ history.errors[0] = 1
    /\ history.expressions[MAX_HISTORY - 1] = submitted[MAX_HISTORY + 1]
    /\ history.errors[MAX_HISTORY - 1] = 0

\* Enter was pressed on a line of MAX_TOKEN_LEN - 9 letters and the program
\* was ended in evaluate: nothing was appended
EnterAborted ==
    /\ main_pc = "abort"
    /\ Len(current_expr) = MAX_TOKEN_LEN - Len("Unknown: ")
    /\ history.count = 0
    /\ submitted = <<>>

\* the cursor is in the text or at its end, and the text fits the buffer
\* with its terminator
EditBounded ==
    /\ 0 <= cursor_pos
    /\ cursor_pos <= Len(current_expr)
    /\ Len(current_expr) <= MAX_EXPR_LEN - 1

\* the step is main reading the bytes of the key at the top of its loop
Pressed(key) == main_pc = "read" /\ Becomes(Fed(Now, BytesOf(key), NoOutcome))

\* the step changes neither the text nor the cursor nor the history
NothingDone == UNCHANGED <<current_expr, cursor_pos, history>>

\* the step puts c at the cursor, the text from the cursor on moved right
\* by one and the cursor after c
InsertedAtCursor(c) ==
    /\ Len(current_expr') = Len(current_expr) + 1
    /\ cursor_pos' = cursor_pos + 1
    /\ current_expr'[cursor_pos + 1] = c
    /\ \A i \in 1..cursor_pos : current_expr'[i] = current_expr[i]
    /\ \A i \in (cursor_pos + 1)..Len(current_expr) :
          current_expr'[i + 1] = current_expr[i]
    /\ UNCHANGED history

(***************************************************************************)
(* C30.  After any keys (printable characters, Backspace, the four arrows, *)
(* Enter) 0 <= cursor_pos <= length(current_expr) <= MAX_EXPR_LEN - 1: a   *)
(* printable character is refused when the buffer is full and is otherwise *)
(* inserted exactly at cursor_pos with the rest of the text shifted right; *)
(* Backspace at position 0, Left at position 0 and Right at the end of the *)
(* text do nothing.                                                        *)
(***************************************************************************)
C30_EditState ==
    [][/\ EditBounded /\ EditBounded'
       /\ \A c \in {"2", "+", "x"} :
             Pressed(c) => IF Len(current_expr) < MAX_EXPR_LEN - 1
                           THEN InsertedAtCursor(c) ELSE NothingDone
       /\ (cursor_pos = 0 /\ (Pressed("Backspace") \/ Pressed("Left"))) => NothingDone
       /\ (cursor_pos = Len(current_expr) /\ Pressed("Right")) => NothingDone]_vars

\* the buffer is full and the cursor is before the last character: the last
\* characters were inserted before the end of the text
C30_Witness ==
    /\ main_pc = "read"
    /\ Len(current_expr) = MAX_EXPR_LEN - 1
    /\ cursor_pos = MAX_EXPR_LEN - 2
    /\ Range(current_expr) = {"x"}

====
